---- MODULE Spec2Model ----
(***************************************************************************)
(* Admission control for the AI agent connection of a meeting              *)
(* (Alex-Andersson/meet-ai).                                               *)
(*                                                                         *)
(* State: the shared aiConnectionLocks table, the per-process in-memory    *)
(* AISingletonGuard.instances and recentAttempts maps, the meetings.status *)
(* column, the clock, and the request handlers that are in flight.         *)
(*                                                                         *)
(* Granularity: a handler is cut at its awaits.  One action is the effect  *)
(* of the awaited store or SDK operation together with the synchronous     *)
(* code that runs when the await resumes, up to the next await.            *)
(*                                                                         *)
(* Handlers in flight are a bag of records: two handlers at the same       *)
(* position with the same locals are two copies of one record.  A handler  *)
(* that returns leaves the bag.                                            *)
(***************************************************************************)
EXTENDS Integers, FiniteSets, Sequences, Bags, TLC

\* ---------------------------------------------------------------- bounds
MaxReq == 2          \* request handlers in flight at the same time
NumProcs == 2        \* server processes (each has its own in-memory maps)
MaxTicks == 1        \* clock advances in one behaviour
MaxPending == 1      \* un-awaited cleanupConnection calls in flight per meeting
MaxTocks == 3        \* five-second clock advances in one behaviour of the lock classes

\* ------------------------------------------------------- program constants
maxRetries == 3
FiveMinutes == 300000
RateWindow == 5000
RateKeep == 30000
minAttemptGap == 10000

\* the clock of the model advances in steps that take a row past the age of
\* five minutes
TickMs == FiveMinutes + 1
\* Date.now() at the first state
StartTime == 2 * FiveMinutes

Procs == 1..NumProcs
Meetings == {"m1", "m2"}
\* the meeting the request handlers are called for
Called == {"m1"}

\* meetings.agentId of the meeting row
AgentOf(m) == IF m = "m1" THEN "a1" ELSE "a2"

VARIABLES
  aiConnectionLocks,  \* set of rows of the aiConnectionLocks table
  instances,          \* AISingletonGuard.instances of every process
  recentAttempts,     \* recentAttempts map of every process, 0 for no entry
  meetingStatus,      \* meetings.status of every meeting
  now,                \* Date.now()
  req,                \* bag of the request handlers in flight
  attached,           \* <<meeting, handler kind>> of the agent connections of the session
  pendingCleanup,     \* cleanupConnection calls started and not awaited
  faults,             \* "none", "delete" or "any": the store operations that may throw
  NODE_ENV,           \* process.env.NODE_ENV of the deployment
  EmergencyAIGuard,   \* static fields activeConnections, connectionAttempts (0 for no entry)
  AbsoluteAILock      \* static fields globalLock, requestCounts (0 for no entry)

vars == <<aiConnectionLocks, instances, recentAttempts, meetingStatus, now, req,
          attached, pendingCleanup, faults, NODE_ENV, EmergencyAIGuard, AbsoluteAILock>>

\* the in-memory lock classes as the module load leaves them
EmergencyLoaded ==
  [activeConnections |-> {}, connectionAttempts |-> [m \in Meetings |-> 0]]
AbsoluteLoaded ==
  [globalLock |-> {}, requestCounts |-> [m \in Meetings |-> 0]]
LocksLoaded == EmergencyAIGuard = EmergencyLoaded /\ AbsoluteAILock = AbsoluteLoaded

\* outcome of one store operation: completed, or thrown
StoreOutcomes == IF faults = "any" THEN {"ok", "error"} ELSE {"ok"}
DeleteOutcomes == IF faults \in {"any", "delete"} THEN {"ok", "error"} ELSE {"ok"}

\* ----------------------------------------------------------- lock store
RowsOf(rows, m) == {row \in rows : row.meetingId = m}

\* db.insert(aiConnectionLocks).values({...}): the row that is created
NewRow(m, a, t) ==
  [meetingId |-> m, agentId |-> a, isInProgress |-> TRUE, createdAt |-> t]

\* a table without the key: every insert is accepted
InsertAllowedNoKey(rows, m) == TRUE

\* primary key on meetingId: the insert throws when a row of m exists
InsertAllowed(rows, m) == RowsOf(rows, m) = {}

\* a delete without its where clause
DeleteRowsAll(rows, m) == {}

\* db.delete(aiConnectionLocks).where(eq(meetingId, m))
DeleteRows(rows, m) == rows \ RowsOf(rows, m)

\* db.update(aiConnectionLocks).set({isInProgress: false}).where(eq(meetingId, m))
\* an update without its where clause
CompleteRowsAll(rows, m) == {[row EXCEPT !.isInProgress = FALSE] : row \in rows}

\* an update that flips isInProgress instead of clearing it
CompleteRowsToggle(rows, m) ==
  {IF row.meetingId = m THEN [row EXCEPT !.isInProgress = ~@] ELSE row : row \in rows}

CompleteRows(rows, m) ==
  {IF row.meetingId = m THEN [row EXCEPT !.isInProgress = FALSE] ELSE row : row \in rows}

\* a cleanupConnection that deletes nothing
cleanupConnectionNoDelete(rows, m, o) == rows

\* cleanupConnection: the delete, or nothing when the store throws (caught)
cleanupConnection(rows, m, o) == IF o = "ok" THEN DeleteRows(rows, m) ELSE rows

\* getConnectionState: the row of m, or null when none or when the select throws
getConnectionState(rows, m, o) == IF o = "ok" THEN RowsOf(rows, m) ELSE {}

\* rows with createdAt < now - 5 minutes
\* a sweep that spares the rows of confirmed admissions
ExpiredInProgressOnly(rows, t) ==
  {row \in rows : row.isInProgress /\ row.createdAt < t - FiveMinutes}

Expired(rows, t) == {row \in rows : row.createdAt < t - FiveMinutes}

\* a guard that is locked by an entry of any meeting
isLockedAny(p, m) == instances[p] # {}

\* AISingletonGuard.isLocked
isLocked(p, m) == m \in instances[p]

\* the agent of m is a participant of the call: a connectOpenAi succeeded
AgentInCall(m) == \E a \in attached : a[1] = m

\* the session of m is over
Detached(m) == {a \in attached : a[1] # m}

\* ------------------------------------------------------------- requests
\* a handler of kind k for meeting m on process p (0: the handler uses no
\* in-memory map) whose next step is pc
NewReq(k, p, m, pc) ==
  [kind |-> k, pc |-> pc, proc |-> p, meeting |-> m, retryCount |-> 0,
   err |-> "none",
   acquired |-> FALSE, delFailed |-> FALSE, ownRow |-> FALSE, swept |-> FALSE,
   readFailed |-> FALSE]

\* Locals of a handler: retryCount; err, the error it is about to throw.
\* History of a handler (not program state): acquired, its insert created a
\* row; delFailed, a delete it issued after that threw; ownRow, the row it
\* inserted is still in the table; swept, that row was deleted by
\* cleanupOldConnections; readFailed, the select of its getConnectionState
\* threw.

One(q) == SetToBag({q})

\* the handlers after handler q has moved to q2, and after q has returned
Goto(q, q2) == (req (-) One(q)) (+) One(q2)
Leave(q) == req (-) One(q)

\* ownRow and swept of q once the table is rows
Settle(q, rows, sweep) ==
  IF q.ownRow /\ RowsOf(rows, q.meeting) = {}
  THEN [q EXCEPT !.ownRow = FALSE, !.swept = sweep]
  ELSE q

SettleAll(B, rows, sweep) == BagOfAll(LAMBDA q : Settle(q, rows, sweep), B)

\* q after a delete it issued ended with outcome o
Deleted(q, o) == [q EXCEPT !.delFailed = @ \/ (q.acquired /\ o = "error")]

Start ==
  /\ aiConnectionLocks = {}
  /\ instances = [p \in Procs |-> {}]
  /\ recentAttempts = [p \in Procs |-> [m \in Meetings |-> 0]]
  /\ meetingStatus = [m \in Meetings |-> "upcoming"]
  /\ now = StartTime
  /\ req = EmptyBag
  /\ attached = {}
  /\ pendingCleanup = [m \in Meetings |-> 0]
  /\ NODE_ENV = "production"
  /\ LocksLoaded

Init == Start /\ faults = "any"
InitOk == Start /\ faults = "none"
InitDel == Start /\ faults = "delete"

\* ----------------------------------------------------------- triggerAI
\* a triggerAI call for meeting m arrives at process p
TriggerAI(p, m) ==
  /\ BagCardinality(req) < MaxReq
  /\ req' = req (+) One(NewReq("triggerAI", p, m, "start"))
  /\ UNCHANGED <<aiConnectionLocks, instances, recentAttempts, meetingStatus, now, attached, pendingCleanup, faults, NODE_ENV, EmergencyAIGuard, AbsoluteAILock>>

\* entry of the procedure: AISingletonGuard.isLocked throws CONFLICT (outside
\* the try block), otherwise getConnectionState is issued
TriggerStart(q) ==
  /\ q.kind = "triggerAI" /\ q.pc = "start"
  /\ req' = IF isLocked(q.proc, q.meeting)
            THEN Leave(q)
            ELSE Goto(q, [q EXCEPT !.pc = "getConnectionState"])
  /\ UNCHANGED <<aiConnectionLocks, instances, recentAttempts, meetingStatus, now, attached, pendingCleanup, faults, NODE_ENV, EmergencyAIGuard, AbsoluteAILock>>

\* STEP 2: any existing row rejects the call with CONFLICT (thrown outside
\* the try block)
TriggerGetState(q) ==
  /\ q.kind = "triggerAI" /\ q.pc = "getConnectionState"
  /\ \E o \in StoreOutcomes :
       req' = IF getConnectionState(aiConnectionLocks, q.meeting, o) # {}
              THEN Leave(q)
              ELSE Goto(q, [q EXCEPT !.pc = "lookup", !.readFailed = (o = "error")])
  /\ UNCHANGED <<aiConnectionLocks, instances, recentAttempts, meetingStatus, now, attached, pendingCleanup, faults, NODE_ENV, EmergencyAIGuard, AbsoluteAILock>>

\* a checkAndLock that answers true where it has to answer false
GuardFalseAsTrue(q) ==
  IF q.kind = "triggerAI"
  THEN Goto(q, [q EXCEPT !.pc = "callGet", !.acquired = TRUE, !.ownRow = TRUE])
  ELSE Goto(q, [q EXCEPT !.pc = "returned", !.proc = 0, !.acquired = TRUE])

\* checkAndLock returned false: triggerAI throws CONFLICT inside its try
\* block; a direct caller (whichever process it runs on) holds the value
\* false (acquired)
GuardFalse(q) ==
  IF q.kind = "triggerAI"
  THEN Goto(q, [q EXCEPT !.pc = "catchCleanup", !.err = "CONFLICT"])
  ELSE Goto(q, [q EXCEPT !.pc = "returned", !.proc = 0])

\* checkAndLock returned true: triggerAI goes on to call.get(); a direct
\* caller holds the value true (acquired)
GuardTrue(q) ==
  IF q.kind = "triggerAI"
  THEN Goto(q, [q EXCEPT !.pc = "callGet", !.acquired = TRUE, !.ownRow = TRUE])
  ELSE Goto(q, [q EXCEPT !.pc = "returned", !.proc = 0, !.acquired = TRUE])

\* the meeting and agent selects; a missing one cleans up and throws NOT_FOUND;
\* otherwise checkAndLock starts with its in-memory check and issues its select
TriggerLookup(q) ==
  /\ q.kind = "triggerAI" /\ q.pc = "lookup"
  /\ \E found \in BOOLEAN :
       req' = IF ~found
              THEN Goto(q, [q EXCEPT !.pc = "notFoundCleanup", !.err = "NOT_FOUND"])
              ELSE IF isLocked(q.proc, q.meeting)
                   THEN GuardFalse(q)
                   ELSE Goto(q, [q EXCEPT !.pc = "guardSelect"])
  /\ UNCHANGED <<aiConnectionLocks, instances, recentAttempts, meetingStatus, now, attached, pendingCleanup, faults, NODE_ENV, EmergencyAIGuard, AbsoluteAILock>>

\* cleanupConnection before the NOT_FOUND throw, which the catch block receives
TriggerNotFoundCleanup(q) ==
  /\ q.kind = "triggerAI" /\ q.pc = "notFoundCleanup"
  /\ \E o \in DeleteOutcomes :
       /\ aiConnectionLocks' = cleanupConnection(aiConnectionLocks, q.meeting, o)
       /\ req' = SettleAll(Goto(q, [Deleted(q, o) EXCEPT !.pc = "catchCleanup"]),
                           aiConnectionLocks', FALSE)
  /\ UNCHANGED <<instances, recentAttempts, meetingStatus, now, attached, pendingCleanup, faults, NODE_ENV, EmergencyAIGuard, AbsoluteAILock>>

\* checkAndLock: the select; an existing row or a throw returns false;
\* otherwise the insert is issued
GuardSelect(q) ==
  /\ q.kind \in {"triggerAI", "checkAndLock"} /\ q.pc = "guardSelect"
  /\ \E o \in StoreOutcomes :
       req' = IF o = "ok" /\ RowsOf(aiConnectionLocks, q.meeting) = {}
              THEN Goto(q, [q EXCEPT !.pc = "guardInsert"])
              ELSE GuardFalse(q)
  /\ UNCHANGED <<aiConnectionLocks, instances, recentAttempts, meetingStatus, now, attached, pendingCleanup, faults, NODE_ENV, EmergencyAIGuard, AbsoluteAILock>>

\* a checkAndLock that marks the meeting in memory before its insert
GuardInsertMarksFirst(q) ==
  /\ q.kind \in {"triggerAI", "checkAndLock"} /\ q.pc = "guardInsert"
  /\ instances' = [instances EXCEPT ![q.proc] = @ \cup {q.meeting}]
  /\ \E o \in StoreOutcomes :
       IF o = "ok" /\ InsertAllowed(aiConnectionLocks, q.meeting)
       THEN /\ aiConnectionLocks' =
                 aiConnectionLocks \cup {NewRow(q.meeting, AgentOf(q.meeting), now)}
            /\ req' = GuardTrue(q)
       ELSE /\ req' = GuardFalse(q)
            /\ UNCHANGED aiConnectionLocks
  /\ UNCHANGED <<recentAttempts, meetingStatus, now, attached, pendingCleanup, faults, NODE_ENV, EmergencyAIGuard, AbsoluteAILock>>

\* checkAndLock: the insert (it reaches the store at the clock value it was
\* issued with); on success the meeting is marked in memory and checkAndLock
\* returns true, on a throw it returns false
GuardInsert(q) ==
  /\ q.kind \in {"triggerAI", "checkAndLock"} /\ q.pc = "guardInsert"
  /\ \E o \in StoreOutcomes :
       IF o = "ok" /\ InsertAllowed(aiConnectionLocks, q.meeting)
       THEN /\ aiConnectionLocks' =
                 aiConnectionLocks \cup {NewRow(q.meeting, AgentOf(q.meeting), now)}
            /\ instances' = [instances EXCEPT ![q.proc] = @ \cup {q.meeting}]
            /\ req' = GuardTrue(q)
       ELSE /\ req' = GuardFalse(q)
            /\ UNCHANGED <<aiConnectionLocks, instances>>
  /\ UNCHANGED <<recentAttempts, meetingStatus, now, attached, pendingCleanup, faults, NODE_ENV, EmergencyAIGuard, AbsoluteAILock>>

\* call.get(): the agent is seen among the participants only if it was attached
TriggerCallGet(q) ==
  /\ q.kind = "triggerAI" /\ q.pc = "callGet"
  /\ \E agentAlreadyInCall \in (IF AgentInCall(q.meeting) THEN BOOLEAN ELSE {FALSE}) :
       req' = Goto(q, [q EXCEPT !.pc = IF agentAlreadyInCall THEN "dupCleanup" ELSE "update"])
  /\ UNCHANGED <<aiConnectionLocks, instances, recentAttempts, meetingStatus, now, attached, pendingCleanup, faults, NODE_ENV, EmergencyAIGuard, AbsoluteAILock>>

\* the agent is already in the call: cleanupConnection, then the CONFLICT error is
\* thrown inside the inner try and swallowed by its catch (callError)
TriggerDupCleanup(q) ==
  /\ q.kind = "triggerAI" /\ q.pc = "dupCleanup"
  /\ \E o \in DeleteOutcomes :
       /\ aiConnectionLocks' = cleanupConnection(aiConnectionLocks, q.meeting, o)
       /\ req' = SettleAll(Goto(q, [Deleted(q, o) EXCEPT !.pc = "update"]),
                           aiConnectionLocks', FALSE)
  /\ UNCHANGED <<instances, recentAttempts, meetingStatus, now, attached, pendingCleanup, faults, NODE_ENV, EmergencyAIGuard, AbsoluteAILock>>

\* meetings.status := active, then upsertUsers; a throw of either goes to catch
TriggerUpdate(q) ==
  /\ q.kind = "triggerAI" /\ q.pc = "update"
  /\ \E o \in StoreOutcomes :
       IF o = "ok"
       THEN /\ meetingStatus' = [meetingStatus EXCEPT ![q.meeting] = "active"]
            /\ req' = Goto(q, [q EXCEPT !.pc = "connect"])
       ELSE /\ req' = Goto(q, [q EXCEPT !.pc = "catchCleanup", !.err = "INTERNAL_SERVER_ERROR"])
            /\ UNCHANGED meetingStatus
  /\ UNCHANGED <<aiConnectionLocks, instances, recentAttempts, now, attached, pendingCleanup, faults, NODE_ENV, EmergencyAIGuard, AbsoluteAILock>>

ConnectOutcomes == {"connected", "mask", "other"}

\* a retry loop that goes on to the success path when its attempts are used up
TriggerConnectGivesUp(q) ==
  /\ q.kind = "triggerAI" /\ q.pc = "connect"
  /\ q.retryCount < maxRetries
  /\ \E c \in ConnectOutcomes :
       LET rc == q.retryCount + 1
       IN IF c = "connected"
          THEN /\ attached' = attached \cup {<<q.meeting, "triggerAI">>}
               /\ req' = Goto(q, [q EXCEPT !.pc = "markCompleted", !.retryCount = 0])
          ELSE /\ UNCHANGED attached
               /\ req' = IF c = "mask" /\ rc < maxRetries
                         THEN Goto(q, [q EXCEPT !.retryCount = rc])
                         ELSE Goto(q, [q EXCEPT !.retryCount = 0, !.pc = "markCompleted"])
  /\ UNCHANGED <<aiConnectionLocks, instances, recentAttempts, meetingStatus, now, pendingCleanup, faults, NODE_ENV, EmergencyAIGuard, AbsoluteAILock>>

\* a retry loop that tries again after any error
ConnectAttemptAnyError(q, c) ==
  /\ q.kind = "triggerAI" /\ q.pc = "connect"
  /\ q.retryCount < maxRetries
  /\ LET rc == q.retryCount + 1
     IN IF c = "connected"
        THEN /\ attached' = attached \cup {<<q.meeting, "triggerAI">>}
             /\ req' = Goto(q, [q EXCEPT !.pc = "markCompleted", !.retryCount = 0])
        ELSE /\ UNCHANGED attached
             /\ req' = IF rc < maxRetries
                       THEN Goto(q, [q EXCEPT !.retryCount = rc])
                       ELSE Goto(q, [q EXCEPT !.retryCount = 0, !.pc = "failCleanup",
                                              !.err = "INTERNAL_SERVER_ERROR"])
  /\ UNCHANGED <<aiConnectionLocks, instances, recentAttempts, meetingStatus, now, pendingCleanup, faults, NODE_ENV, EmergencyAIGuard, AbsoluteAILock>>

\* one pass of the retry loop in which connectOpenAi ends with c: it succeeds,
\* fails with the retryable 'mask is not a function' error, or fails with
\* another error; retryCount is the number of failed attempts of this call
ConnectAttempt(q, c) ==
  /\ q.kind = "triggerAI" /\ q.pc = "connect"
  /\ q.retryCount < maxRetries
  /\ LET rc == q.retryCount + 1
     IN IF c = "connected"
        THEN /\ attached' = attached \cup {<<q.meeting, "triggerAI">>}
             /\ req' = Goto(q, [q EXCEPT !.pc = "markCompleted", !.retryCount = 0])
        ELSE /\ UNCHANGED attached
             /\ req' = IF c = "mask" /\ rc < maxRetries
                       THEN Goto(q, [q EXCEPT !.retryCount = rc])
                       ELSE Goto(q, [q EXCEPT !.retryCount = 0, !.pc = "failCleanup",
                                              !.err = "INTERNAL_SERVER_ERROR"])
  /\ UNCHANGED <<aiConnectionLocks, instances, recentAttempts, meetingStatus, now, pendingCleanup, faults, NODE_ENV, EmergencyAIGuard, AbsoluteAILock>>

\* the retry loop around connectOpenAi
TriggerConnect(q) == \E c \in ConnectOutcomes : ConnectAttempt(q, c)

\* cleanupConnection inside the retry loop before the error is thrown to catch
TriggerFailCleanup(q) ==
  /\ q.kind = "triggerAI" /\ q.pc = "failCleanup"
  /\ \E o \in DeleteOutcomes :
       /\ aiConnectionLocks' = cleanupConnection(aiConnectionLocks, q.meeting, o)
       /\ req' = SettleAll(Goto(q, [Deleted(q, o) EXCEPT !.pc = "catchCleanup"]),
                           aiConnectionLocks', FALSE)
  /\ UNCHANGED <<instances, recentAttempts, meetingStatus, now, attached, pendingCleanup, faults, NODE_ENV, EmergencyAIGuard, AbsoluteAILock>>

\* markConnectionCompleted (a throw is caught inside), then the call returns success
TriggerMarkCompleted(q) ==
  /\ q.kind = "triggerAI" /\ q.pc = "markCompleted"
  /\ \E o \in StoreOutcomes :
       aiConnectionLocks' =
         IF o = "ok" THEN CompleteRows(aiConnectionLocks, q.meeting)
         ELSE aiConnectionLocks
  /\ req' = Leave(q)
  /\ UNCHANGED <<instances, recentAttempts, meetingStatus, now, attached, pendingCleanup, faults, NODE_ENV, EmergencyAIGuard, AbsoluteAILock>>

\* catch block: cleanupConnection; when it resumes AISingletonGuard.release
\* removes the in-memory entry and issues its own delete
TriggerCatchCleanup(q) ==
  /\ q.kind = "triggerAI" /\ q.pc = "catchCleanup"
  /\ \E o \in DeleteOutcomes :
       /\ aiConnectionLocks' = cleanupConnection(aiConnectionLocks, q.meeting, o)
       /\ req' = SettleAll(Goto(q, [Deleted(q, o) EXCEPT !.pc = "catchRelease"]),
                           aiConnectionLocks', FALSE)
  /\ instances' = [instances EXCEPT ![q.proc] = @ \ {q.meeting}]
  /\ UNCHANGED <<recentAttempts, meetingStatus, now, attached, pendingCleanup, faults, NODE_ENV, EmergencyAIGuard, AbsoluteAILock>>

\* catch block: the delete of AISingletonGuard.release, then the error is thrown
TriggerCatchRelease(q) ==
  /\ q.kind = "triggerAI" /\ q.pc = "catchRelease"
  /\ \E o \in DeleteOutcomes :
       /\ aiConnectionLocks' = cleanupConnection(aiConnectionLocks, q.meeting, o)
       /\ req' = SettleAll(Leave(q), aiConnectionLocks', FALSE)
  /\ UNCHANGED <<instances, recentAttempts, meetingStatus, now, attached, pendingCleanup, faults, NODE_ENV, EmergencyAIGuard, AbsoluteAILock>>

\* outcome of a triggerAI call that runs alone on a process whose in-memory
\* map is inst, the store answering and the meeting and agent present:
\* isLocked, getConnectionState, then checkAndLock (memory, select, insert)
TriggerOutcome(rows, inst, m) ==
  IF m \in inst THEN "CONFLICT"
  ELSE IF getConnectionState(rows, m, "ok") # {} THEN "CONFLICT"
  ELSE IF m \in inst \/ RowsOf(rows, m) # {} \/ ~InsertAllowed(rows, m) THEN "CONFLICT"
  ELSE "granted"

\* ------------------------------------------------- triggerAI calls only
NextTrigger ==
  \/ \E p \in Procs, m \in Called : TriggerAI(p, m)
  \/ \E q \in DOMAIN req : TriggerStart(q)
  \/ \E q \in DOMAIN req : TriggerGetState(q)
  \/ \E q \in DOMAIN req : TriggerLookup(q)
  \/ \E q \in DOMAIN req : TriggerNotFoundCleanup(q)
  \/ \E q \in DOMAIN req : GuardSelect(q)
  \/ \E q \in DOMAIN req : GuardInsert(q)
  \/ \E q \in DOMAIN req : TriggerCallGet(q)
  \/ \E q \in DOMAIN req : TriggerDupCleanup(q)
  \/ \E q \in DOMAIN req : TriggerUpdate(q)
  \/ \E q \in DOMAIN req : TriggerConnect(q)
  \/ \E q \in DOMAIN req : TriggerFailCleanup(q)
  \/ \E q \in DOMAIN req : TriggerMarkCompleted(q)
  \/ \E q \in DOMAIN req : TriggerCatchCleanup(q)
  \/ \E q \in DOMAIN req : TriggerCatchRelease(q)

SpecTrigger == Init /\ [][NextTrigger]_vars
SpecTriggerOk == InitOk /\ [][NextTrigger]_vars
SpecTriggerDel == InitDel /\ [][NextTrigger]_vars

\* ------------------------------------ webhook, manual-control version
\* call.session_ended: cleanupConnection is started without await, then the
\* meeting update is awaited; the session of the call is over
SessionEnded(m) ==
  /\ BagCardinality(req) < MaxReq
  /\ pendingCleanup[m] < MaxPending
  /\ pendingCleanup' = [pendingCleanup EXCEPT ![m] = @ + 1]
  /\ attached' = Detached(m)
  /\ req' = req (+) One(NewReq("session_ended", 0, m, "endedUpdate"))
  /\ UNCHANGED <<aiConnectionLocks, instances, recentAttempts, meetingStatus, now, faults, NODE_ENV, EmergencyAIGuard, AbsoluteAILock>>

\* the un-awaited cleanupConnection reaches the store
CleanupArrives(m) ==
  /\ pendingCleanup[m] > 0
  /\ pendingCleanup' = [pendingCleanup EXCEPT ![m] = @ - 1]
  /\ \E o \in DeleteOutcomes :
       /\ aiConnectionLocks' = cleanupConnection(aiConnectionLocks, m, o)
       /\ req' = SettleAll(req, aiConnectionLocks', FALSE)
  /\ UNCHANGED <<instances, recentAttempts, meetingStatus, now, attached, faults, NODE_ENV, EmergencyAIGuard, AbsoluteAILock>>

\* an update without the condition status = active
SessionEndedUpdateAnyStatus(q) ==
  /\ q.kind = "session_ended" /\ q.pc = "endedUpdate"
  /\ \E o \in StoreOutcomes :
       meetingStatus' = [meetingStatus EXCEPT ![q.meeting] =
                           IF o = "ok" THEN "processing" ELSE @]
  /\ req' = Leave(q)
  /\ UNCHANGED <<aiConnectionLocks, instances, recentAttempts, now, attached, pendingCleanup, faults, NODE_ENV, EmergencyAIGuard, AbsoluteAILock>>

\* update meetings set status = processing where id = m and status = active;
\* a throw of the update leaves the handler with an unhandled error
SessionEndedUpdate(q) ==
  /\ q.kind = "session_ended" /\ q.pc = "endedUpdate"
  /\ \E o \in StoreOutcomes :
       meetingStatus' = [meetingStatus EXCEPT ![q.meeting] =
                           IF o = "ok" /\ @ = "active" THEN "processing" ELSE @]
  /\ req' = Leave(q)
  /\ UNCHANGED <<aiConnectionLocks, instances, recentAttempts, now, attached, pendingCleanup, faults, NODE_ENV, EmergencyAIGuard, AbsoluteAILock>>

\* ------------------------------------------------------ clock and sweep
Tick ==
  /\ now < StartTime + MaxTicks * TickMs
  /\ now' = now + TickMs
  /\ UNCHANGED <<aiConnectionLocks, instances, recentAttempts, meetingStatus, req, attached, pendingCleanup, faults, NODE_ENV, EmergencyAIGuard, AbsoluteAILock>>

\* cleanupOldConnections (cleanupAILocks procedure or the development timer)
cleanupOldConnections ==
  /\ \E o \in DeleteOutcomes :
       LET gone == IF o = "ok" THEN Expired(aiConnectionLocks, now) ELSE {}
       IN /\ aiConnectionLocks' = aiConnectionLocks \ gone
          /\ req' = SettleAll(req, aiConnectionLocks', TRUE)
  /\ UNCHANGED <<instances, recentAttempts, meetingStatus, now, attached, pendingCleanup, faults, NODE_ENV, EmergencyAIGuard, AbsoluteAILock>>

\* setInterval(cleanupOldConnections, 5 * 60 * 1000), installed when the
\* module is loaded with NODE_ENV = 'development'
SweepTimer ==
  /\ NODE_ENV = "development"
  /\ cleanupOldConnections

\* ------------------------- deployment with the manual-control webhook
Next ==
  \/ \E p \in Procs, m \in Called : TriggerAI(p, m)
  \/ \E q \in DOMAIN req : TriggerStart(q)
  \/ \E q \in DOMAIN req : TriggerGetState(q)
  \/ \E q \in DOMAIN req : TriggerLookup(q)
  \/ \E q \in DOMAIN req : TriggerNotFoundCleanup(q)
  \/ \E q \in DOMAIN req : GuardSelect(q)
  \/ \E q \in DOMAIN req : GuardInsert(q)
  \/ \E q \in DOMAIN req : TriggerCallGet(q)
  \/ \E q \in DOMAIN req : TriggerDupCleanup(q)
  \/ \E q \in DOMAIN req : TriggerUpdate(q)
  \/ \E q \in DOMAIN req : TriggerConnect(q)
  \/ \E q \in DOMAIN req : TriggerFailCleanup(q)
  \/ \E q \in DOMAIN req : TriggerMarkCompleted(q)
  \/ \E q \in DOMAIN req : TriggerCatchCleanup(q)
  \/ \E q \in DOMAIN req : TriggerCatchRelease(q)
  \/ \E m \in Called : SessionEnded(m)
  \/ \E q \in DOMAIN req : SessionEndedUpdate(q)
  \/ \E m \in Called : CleanupArrives(m)
  \/ Tick
  \/ cleanupOldConnections

Spec == Init /\ [][Next]_vars
SpecOk == InitOk /\ [][Next]_vars

\* ------------------------------------ webhook, auto-connect version
\* call.session_started is delivered: the meeting select is issued
SessionStarted(m) ==
  /\ BagCardinality(req) < MaxReq
  /\ req' = req (+) One(NewReq("session_started", 0, m, "startedSelect"))
  /\ UNCHANGED <<aiConnectionLocks, instances, recentAttempts, meetingStatus, now, attached, pendingCleanup, faults, NODE_ENV, EmergencyAIGuard, AbsoluteAILock>>

\* the select finds the meeting only while its status is upcoming; else 404
StartedSelect(q) ==
  /\ q.kind = "session_started" /\ q.pc = "startedSelect"
  /\ \E o \in StoreOutcomes :
       req' = IF o = "ok" /\ meetingStatus[q.meeting] = "upcoming"
              THEN Goto(q, [q EXCEPT !.pc = "startedUpdate"])
              ELSE Leave(q)
  /\ UNCHANGED <<aiConnectionLocks, instances, recentAttempts, meetingStatus, now, attached, pendingCleanup, faults, NODE_ENV, EmergencyAIGuard, AbsoluteAILock>>

\* update meetings set status = active where id = m
StartedUpdate(q) ==
  /\ q.kind = "session_started" /\ q.pc = "startedUpdate"
  /\ \E o \in StoreOutcomes :
       IF o = "ok"
       THEN /\ meetingStatus' = [meetingStatus EXCEPT ![q.meeting] = "active"]
            /\ req' = Goto(q, [q EXCEPT !.pc = "startedAgent"])
       ELSE /\ UNCHANGED meetingStatus
            /\ req' = Leave(q)
  /\ UNCHANGED <<aiConnectionLocks, instances, recentAttempts, now, attached, pendingCleanup, faults, NODE_ENV, EmergencyAIGuard, AbsoluteAILock>>

\* the agent select (404 when missing), upsertUsers and the delay
StartedAgent(q) ==
  /\ q.kind = "session_started" /\ q.pc = "startedAgent"
  /\ \E found \in BOOLEAN :
       req' = IF found THEN Goto(q, [q EXCEPT !.pc = "webhookConnect"]) ELSE Leave(q)
  /\ UNCHANGED <<aiConnectionLocks, instances, recentAttempts, meetingStatus, now, attached, pendingCleanup, faults, NODE_ENV, EmergencyAIGuard, AbsoluteAILock>>

\* call.session_participant_joined is delivered: the meeting select is issued
ParticipantJoined(m) ==
  /\ BagCardinality(req) < MaxReq
  /\ req' = req (+) One(NewReq("participant_joined", 0, m, "joinedSelect"))
  /\ UNCHANGED <<aiConnectionLocks, instances, recentAttempts, meetingStatus, now, attached, pendingCleanup, faults, NODE_ENV, EmergencyAIGuard, AbsoluteAILock>>

\* the meeting select: the handler keeps the status it read
JoinedSelect(q) ==
  /\ q.kind = "participant_joined" /\ q.pc = "joinedSelect"
  /\ \E o \in StoreOutcomes :
       req' = IF o = "error" THEN Leave(q)
              ELSE IF meetingStatus[q.meeting] = "active"
                   THEN Goto(q, [q EXCEPT !.pc = "joinedAgentActive"])
                   ELSE Goto(q, [q EXCEPT !.pc = "joinedAgent"])
  /\ UNCHANGED <<aiConnectionLocks, instances, recentAttempts, meetingStatus, now, attached, pendingCleanup, faults, NODE_ENV, EmergencyAIGuard, AbsoluteAILock>>

\* a handler that connects for every participant, the agent included
JoinedDecideAnyone(q, found, isAgent) ==
  /\ q.kind = "participant_joined"
  /\ q.pc \in {"joinedAgent", "joinedAgentActive"}
  /\ req' = IF ~found \/ q.pc = "joinedAgentActive"
            THEN Leave(q)
            ELSE Goto(q, [q EXCEPT !.pc = "joinedUpdate"])
  /\ UNCHANGED <<aiConnectionLocks, instances, recentAttempts, meetingStatus, now, attached, pendingCleanup, faults, NODE_ENV, EmergencyAIGuard, AbsoluteAILock>>

\* the agent select; the handler returns without connecting when the agent is
\* missing, when the participant is the agent, or when the status read was
\* active; otherwise the meeting update is issued
JoinedDecide(q, found, isAgent) ==
  /\ q.kind = "participant_joined"
  /\ q.pc \in {"joinedAgent", "joinedAgentActive"}
  /\ req' = IF ~found \/ isAgent \/ q.pc = "joinedAgentActive"
            THEN Leave(q)
            ELSE Goto(q, [q EXCEPT !.pc = "joinedUpdate"])
  /\ UNCHANGED <<aiConnectionLocks, instances, recentAttempts, meetingStatus, now, attached, pendingCleanup, faults, NODE_ENV, EmergencyAIGuard, AbsoluteAILock>>

\* the agent is found or not (found); the participant of the notification is
\* the agent or not (isAgent: joinedUserId === existingAgent.id)
JoinedAgent(q) == \E found \in BOOLEAN, isAgent \in BOOLEAN : JoinedDecide(q, found, isAgent)

\* update meetings set status = active, upsertUsers and the delay
JoinedUpdate(q) ==
  /\ q.kind = "participant_joined" /\ q.pc = "joinedUpdate"
  /\ \E o \in StoreOutcomes :
       IF o = "ok"
       THEN /\ meetingStatus' = [meetingStatus EXCEPT ![q.meeting] = "active"]
            /\ req' = Goto(q, [q EXCEPT !.pc = "webhookConnect"])
       ELSE /\ UNCHANGED meetingStatus
            /\ req' = Leave(q)
  /\ UNCHANGED <<aiConnectionLocks, instances, recentAttempts, now, attached, pendingCleanup, faults, NODE_ENV, EmergencyAIGuard, AbsoluteAILock>>

\* one pass of the retry loop of a webhook handler around connectOpenAi; no
\* ticket is asked for; a failure returns 500
WebhookConnect(q) ==
  /\ q.kind \in {"session_started", "participant_joined"} /\ q.pc = "webhookConnect"
  /\ q.retryCount < maxRetries
  /\ \E c \in ConnectOutcomes :
       LET rc == q.retryCount + 1
       IN IF c = "connected"
          THEN /\ attached' = attached \cup {<<q.meeting, q.kind>>}
               /\ req' = Goto(q, [q EXCEPT !.pc = "updateSession", !.retryCount = 0])
          ELSE /\ UNCHANGED attached
               /\ req' = IF c = "mask" /\ rc < maxRetries
                         THEN Goto(q, [q EXCEPT !.retryCount = rc])
                         ELSE Leave(q)
  /\ UNCHANGED <<aiConnectionLocks, instances, recentAttempts, meetingStatus, now, pendingCleanup, faults, NODE_ENV, EmergencyAIGuard, AbsoluteAILock>>

\* the connected client is configured (listeners, updateSession) and the
\* handler returns status ok
WebhookUpdateSession(q) ==
  /\ q.kind \in {"session_started", "participant_joined"} /\ q.pc = "updateSession"
  /\ req' = Leave(q)
  /\ UNCHANGED <<aiConnectionLocks, instances, recentAttempts, meetingStatus, now, attached, pendingCleanup, faults, NODE_ENV, EmergencyAIGuard, AbsoluteAILock>>

\* call.session_ended: update meetings set status = processing where id = m
\* and status = active; the session of the call is over
SessionEndedAuto(m) ==
  /\ \E o \in StoreOutcomes :
       meetingStatus' = [meetingStatus EXCEPT ![m] =
                           IF o = "ok" /\ @ = "active" THEN "processing" ELSE @]
  /\ attached' = Detached(m)
  /\ UNCHANGED <<aiConnectionLocks, instances, recentAttempts, now, req, pendingCleanup, faults, NODE_ENV, EmergencyAIGuard, AbsoluteAILock>>

\* ------------------------- deployment with the auto-connect webhook
NextAuto ==
  \/ \E p \in Procs, m \in Called : TriggerAI(p, m)
  \/ \E q \in DOMAIN req : TriggerStart(q)
  \/ \E q \in DOMAIN req : TriggerGetState(q)
  \/ \E q \in DOMAIN req : TriggerLookup(q)
  \/ \E q \in DOMAIN req : TriggerNotFoundCleanup(q)
  \/ \E q \in DOMAIN req : GuardSelect(q)
  \/ \E q \in DOMAIN req : GuardInsert(q)
  \/ \E q \in DOMAIN req : TriggerCallGet(q)
  \/ \E q \in DOMAIN req : TriggerDupCleanup(q)
  \/ \E q \in DOMAIN req : TriggerUpdate(q)
  \/ \E q \in DOMAIN req : TriggerConnect(q)
  \/ \E q \in DOMAIN req : TriggerFailCleanup(q)
  \/ \E q \in DOMAIN req : TriggerMarkCompleted(q)
  \/ \E q \in DOMAIN req : TriggerCatchCleanup(q)
  \/ \E q \in DOMAIN req : TriggerCatchRelease(q)
  \/ \E m \in Called : SessionStarted(m)
  \/ \E q \in DOMAIN req : StartedSelect(q)
  \/ \E q \in DOMAIN req : StartedUpdate(q)
  \/ \E q \in DOMAIN req : StartedAgent(q)
  \/ \E m \in Called : ParticipantJoined(m)
  \/ \E q \in DOMAIN req : JoinedSelect(q)
  \/ \E q \in DOMAIN req : JoinedAgent(q)
  \/ \E q \in DOMAIN req : JoinedUpdate(q)
  \/ \E q \in DOMAIN req : WebhookConnect(q)
  \/ \E q \in DOMAIN req : WebhookUpdateSession(q)
  \/ \E m \in Called : SessionEndedAuto(m)

SpecAuto == InitOk /\ [][NextAuto]_vars

\* --------------------------------------- clients of the lock modules
\* a purge that drops every entry that is a second old
PurgeAfterOneSecond(ra, t) ==
  [m \in Meetings |-> IF ra[m] # 0 /\ t - ra[m] > 1000 THEN 0 ELSE ra[m]]

\* entries of a recentAttempts map that survive the purge at time t
Purge(ra, t) ==
  [m \in Meetings |-> IF ra[m] # 0 /\ t - ra[m] > RateKeep THEN 0 ELSE ra[m]]

\* a rate limit whose window includes its end
checkRateLimitInclusive(ra, m, t) == ~(ra[m] # 0 /\ t - ra[m] <= RateWindow)

\* checkRateLimit: the value returned
checkRateLimit(ra, m, t) == ~(ra[m] # 0 /\ t - ra[m] < RateWindow)

\* checkRateLimit: the map it leaves
RateAfter(ra, m, t) ==
  IF checkRateLimit(ra, m, t) THEN Purge([ra EXCEPT ![m] = t], t) ELSE ra

\* a markConnectionInProgress that issues its insert whatever the rate limit
\* check said
MarkConnectionInProgressUnlimited(p, m) ==
  /\ BagCardinality(req) < MaxReq
  /\ recentAttempts' = [recentAttempts EXCEPT ![p] = RateAfter(@, m, now)]
  /\ req' = req (+) One(NewReq("markConnectionInProgress", 0, m, "markInsert"))
  /\ UNCHANGED <<aiConnectionLocks, instances, meetingStatus, now, attached, pendingCleanup, faults, NODE_ENV, EmergencyAIGuard, AbsoluteAILock>>

\* markConnectionInProgress: the rate limit check returns false, or the
\* insert is issued
MarkConnectionInProgress(p, m) ==
  /\ BagCardinality(req) < MaxReq
  /\ recentAttempts' = [recentAttempts EXCEPT ![p] = RateAfter(@, m, now)]
  /\ req' = IF checkRateLimit(recentAttempts[p], m, now)
            THEN req (+) One(NewReq("markConnectionInProgress", 0, m, "markInsert"))
            ELSE req (+) One(NewReq("markConnectionInProgress", 0, m, "returned"))
  /\ UNCHANGED <<aiConnectionLocks, instances, meetingStatus, now, attached, pendingCleanup, faults, NODE_ENV, EmergencyAIGuard, AbsoluteAILock>>

\* a markConnectionInProgress that returns true whatever its insert did
MarkInsertAlwaysTrue(q) ==
  /\ q.kind = "markConnectionInProgress" /\ q.pc = "markInsert"
  /\ \E o \in StoreOutcomes :
       aiConnectionLocks' =
         IF o = "ok" /\ InsertAllowed(aiConnectionLocks, q.meeting)
         THEN aiConnectionLocks \cup {NewRow(q.meeting, AgentOf(q.meeting), now)}
         ELSE aiConnectionLocks
  /\ req' = Goto(q, [q EXCEPT !.pc = "returned", !.acquired = TRUE])
  /\ UNCHANGED <<instances, recentAttempts, meetingStatus, now, attached, pendingCleanup, faults, NODE_ENV, EmergencyAIGuard, AbsoluteAILock>>

\* markConnectionInProgress: the insert (it reaches the store at the clock
\* value it was issued with); true when a row came back, false when it threw;
\* the caller holds the value (acquired)
MarkInsert(q) ==
  /\ q.kind = "markConnectionInProgress" /\ q.pc = "markInsert"
  /\ \E o \in StoreOutcomes :
       IF o = "ok" /\ InsertAllowed(aiConnectionLocks, q.meeting)
       THEN /\ aiConnectionLocks' =
                 aiConnectionLocks \cup {NewRow(q.meeting, AgentOf(q.meeting), now)}
            /\ req' = Goto(q, [q EXCEPT !.pc = "returned", !.acquired = TRUE])
       ELSE /\ aiConnectionLocks' = aiConnectionLocks
            /\ req' = Goto(q, [q EXCEPT !.pc = "returned"])
  /\ UNCHANGED <<instances, recentAttempts, meetingStatus, now, attached, pendingCleanup, faults, NODE_ENV, EmergencyAIGuard, AbsoluteAILock>>

\* AISingletonGuard.checkAndLock called directly: the in-memory check returns
\* false, or the select is issued
CheckAndLock(p, m) ==
  /\ BagCardinality(req) < MaxReq
  /\ req' = IF isLocked(p, m)
            THEN req (+) One(NewReq("checkAndLock", 0, m, "returned"))
            ELSE req (+) One(NewReq("checkAndLock", p, m, "guardSelect"))
  /\ UNCHANGED <<aiConnectionLocks, instances, recentAttempts, meetingStatus, now, attached, pendingCleanup, faults, NODE_ENV, EmergencyAIGuard, AbsoluteAILock>>

\* the caller of checkAndLock or markConnectionInProgress goes on with the
\* value it was given
Return(q) ==
  /\ q.kind \in {"checkAndLock", "markConnectionInProgress"} /\ q.pc = "returned"
  /\ req' = Leave(q)
  /\ UNCHANGED <<aiConnectionLocks, instances, recentAttempts, meetingStatus, now, attached, pendingCleanup, faults, NODE_ENV, EmergencyAIGuard, AbsoluteAILock>>

\* AISingletonGuard.release: instances.delete, then the delete is issued
Release(p, m) ==
  /\ BagCardinality(req) < MaxReq
  /\ instances' = [instances EXCEPT ![p] = @ \ {m}]
  /\ req' = req (+) One(NewReq("release", 0, m, "releaseDelete"))
  /\ UNCHANGED <<aiConnectionLocks, recentAttempts, meetingStatus, now, attached, pendingCleanup, faults, NODE_ENV, EmergencyAIGuard, AbsoluteAILock>>

\* AISingletonGuard.release: the delete, a throw is caught
ReleaseDelete(q) ==
  /\ q.kind = "release" /\ q.pc = "releaseDelete"
  /\ \E o \in DeleteOutcomes :
       /\ aiConnectionLocks' = cleanupConnection(aiConnectionLocks, q.meeting, o)
       /\ req' = SettleAll(Leave(q), aiConnectionLocks', FALSE)
  /\ UNCHANGED <<instances, recentAttempts, meetingStatus, now, attached, pendingCleanup, faults, NODE_ENV, EmergencyAIGuard, AbsoluteAILock>>

\* cleanupConnection called and awaited
CleanupConnection(m) ==
  /\ \E o \in DeleteOutcomes :
       /\ aiConnectionLocks' = cleanupConnection(aiConnectionLocks, m, o)
       /\ req' = SettleAll(req, aiConnectionLocks', FALSE)
  /\ UNCHANGED <<instances, recentAttempts, meetingStatus, now, attached, pendingCleanup, faults, NODE_ENV, EmergencyAIGuard, AbsoluteAILock>>

\* markConnectionCompleted called and awaited, a throw is caught
MarkConnectionCompleted(m) ==
  /\ \E o \in StoreOutcomes :
       aiConnectionLocks' =
         IF o = "ok" THEN CompleteRows(aiConnectionLocks, m) ELSE aiConnectionLocks
  /\ UNCHANGED <<instances, recentAttempts, meetingStatus, now, req, attached, pendingCleanup, faults, NODE_ENV, EmergencyAIGuard, AbsoluteAILock>>

NextStore ==
  \/ \E p \in Procs, m \in Called : MarkConnectionInProgress(p, m)
  \/ \E q \in DOMAIN req : MarkInsert(q)
  \/ \E p \in Procs, m \in Called : CheckAndLock(p, m)
  \/ \E q \in DOMAIN req : GuardSelect(q)
  \/ \E q \in DOMAIN req : GuardInsert(q)
  \/ \E q \in DOMAIN req : Return(q)
  \/ \E p \in Procs, m \in Called : Release(p, m)
  \/ \E q \in DOMAIN req : ReleaseDelete(q)
  \/ \E m \in Called : CleanupConnection(m)
  \/ \E m \in Called : MarkConnectionCompleted(m)
  \/ cleanupOldConnections
  \/ Tick

SpecStore == Init /\ [][NextStore]_vars

\* acquisitions by direct calls, with the clock and an awaited release
NextAcquire ==
  \/ \E p \in Procs, m \in Called : MarkConnectionInProgress(p, m)
  \/ \E q \in DOMAIN req : MarkInsert(q)
  \/ \E p \in Procs, m \in Called : CheckAndLock(p, m)
  \/ \E q \in DOMAIN req : GuardSelect(q)
  \/ \E q \in DOMAIN req : GuardInsert(q)
  \/ \E q \in DOMAIN req : Return(q)
  \/ \E m \in Called : CleanupConnection(m)
  \/ Tick

SpecAcquire == Init /\ [][NextAcquire]_vars

\* triggerAI calls on process 1 next to direct calls of
\* markConnectionInProgress (made on process 1: the process matters to its
\* rate limiter only)
NextFail ==
  \/ \E m \in Called : TriggerAI(1, m)
  \/ \E q \in DOMAIN req : TriggerStart(q)
  \/ \E q \in DOMAIN req : TriggerGetState(q)
  \/ \E q \in DOMAIN req : TriggerLookup(q)
  \/ \E q \in DOMAIN req : TriggerNotFoundCleanup(q)
  \/ \E q \in DOMAIN req : GuardSelect(q)
  \/ \E q \in DOMAIN req : GuardInsert(q)
  \/ \E q \in DOMAIN req : TriggerCallGet(q)
  \/ \E q \in DOMAIN req : TriggerDupCleanup(q)
  \/ \E q \in DOMAIN req : TriggerUpdate(q)
  \/ \E q \in DOMAIN req : TriggerConnect(q)
  \/ \E q \in DOMAIN req : TriggerFailCleanup(q)
  \/ \E q \in DOMAIN req : TriggerMarkCompleted(q)
  \/ \E q \in DOMAIN req : TriggerCatchCleanup(q)
  \/ \E q \in DOMAIN req : TriggerCatchRelease(q)
  \/ \E m \in Called : MarkConnectionInProgress(1, m)
  \/ \E q \in DOMAIN req : MarkInsert(q)
  \/ \E q \in DOMAIN req : Return(q)

SpecFail == Init /\ [][NextFail]_vars

\* ------------------------ every writer of the table, called on process 1
NextTicket ==
  \/ \E m \in Called : MarkConnectionInProgress(1, m)
  \/ \E q \in DOMAIN req : MarkInsert(q)
  \/ \E m \in Called : CheckAndLock(1, m)
  \/ \E q \in DOMAIN req : GuardSelect(q)
  \/ \E q \in DOMAIN req : GuardInsert(q)
  \/ \E q \in DOMAIN req : Return(q)
  \/ \E m \in Called : MarkConnectionCompleted(m)
  \/ \E m \in Called : Release(1, m)
  \/ \E q \in DOMAIN req : ReleaseDelete(q)
  \/ \E m \in Called : CleanupConnection(m)
  \/ cleanupOldConnections
  \/ Tick

SpecTicket == Init /\ [][NextTicket]_vars

\* ------------- admissions for every meeting on process 1, the store answering
NextKeys ==
  \/ \E m \in Meetings : TriggerAI(1, m)
  \/ \E q \in DOMAIN req : TriggerStart(q)
  \/ \E q \in DOMAIN req : TriggerGetState(q)
  \/ \E q \in DOMAIN req : TriggerLookup(q)
  \/ \E q \in DOMAIN req : TriggerNotFoundCleanup(q)
  \/ \E q \in DOMAIN req : GuardSelect(q)
  \/ \E q \in DOMAIN req : GuardInsert(q)
  \/ \E q \in DOMAIN req : TriggerCatchCleanup(q)
  \/ \E q \in DOMAIN req : TriggerCatchRelease(q)
  \/ \E m \in Meetings : MarkConnectionInProgress(1, m)
  \/ \E q \in DOMAIN req : MarkInsert(q)
  \/ \E q \in DOMAIN req : Return(q)
  \/ Tick

SpecKeys == InitOk /\ [][NextKeys]_vars

\* ------------------------------------ tickets that nobody releases
\* either deployment mode; no store operation throws
InitSweep ==
  /\ aiConnectionLocks = {}
  /\ instances = [p \in Procs |-> {}]
  /\ recentAttempts = [p \in Procs |-> [m \in Meetings |-> 0]]
  /\ meetingStatus = [m \in Meetings |-> "upcoming"]
  /\ now = StartTime
  /\ req = EmptyBag
  /\ attached = {}
  /\ pendingCleanup = [m \in Meetings |-> 0]
  /\ faults = "none"
  /\ NODE_ENV \in {"development", "production"}
  /\ LocksLoaded

\* tickets are created and confirmed, time passes, the timer fires where it
\* is installed, and a user may call the cleanupAILocks procedure
NextSweep ==
  \/ \E p \in Procs, m \in Called : MarkConnectionInProgress(p, m)
  \/ \E q \in DOMAIN req : MarkInsert(q)
  \/ \E q \in DOMAIN req : Return(q)
  \/ \E m \in Called : MarkConnectionCompleted(m)
  \/ Tick
  \/ SweepTimer
  \/ cleanupOldConnections

\* the clock advances and an installed timer fires; nothing obliges a user to
\* call cleanupAILocks
SpecSweep ==
  /\ InitSweep
  /\ [][NextSweep]_vars
  /\ WF_vars(Tick)
  /\ WF_vars(SweepTimer)

\* ------------------------------------- the sweep on any table of tickets
\* creation times at and next to the age of five minutes, seen from StartTime
SweepTimes ==
  {StartTime - FiveMinutes - 1, StartTime - FiveMinutes,
   StartTime - FiveMinutes + 1, StartTime}

\* every meeting has a row, in progress, of one of SweepTimes; the store
\* throws or it does not
InitOld ==
  /\ aiConnectionLocks \in
       {{f[m] : m \in Meetings} :
          f \in [Meetings -> [meetingId : Meetings, agentId : {AgentOf(m) : m \in Meetings},
                              isInProgress : {TRUE}, createdAt : SweepTimes]]}
  /\ \A m \in Meetings :
       \E row \in aiConnectionLocks : row.meetingId = m /\ row.agentId = AgentOf(m)
  /\ Cardinality(aiConnectionLocks) = Cardinality(Meetings)
  /\ instances = [p \in Procs |-> {}]
  /\ recentAttempts = [p \in Procs |-> [m \in Meetings |-> 0]]
  /\ meetingStatus = [m \in Meetings |-> "upcoming"]
  /\ now = StartTime
  /\ req = EmptyBag
  /\ attached = {}
  /\ pendingCleanup = [m \in Meetings |-> 0]
  /\ faults \in {"none", "any"}
  /\ NODE_ENV = "production"
  /\ LocksLoaded

NextOld ==
  \/ cleanupOldConnections
  \/ \E m \in Meetings : MarkConnectionCompleted(m)
  \/ Tick

SpecOld == InitOld /\ [][NextOld]_vars

\* ------------------------------- the rate limiter on any state of its map
\* times of earlier attempts: at and next to the ends of the 5 s window and
\* of the 30 s the map keeps an entry, seen from StartTime
RateTimes ==
  {StartTime - RateKeep - 1, StartTime - RateKeep,
   StartTime - RateWindow, StartTime - RateWindow + 1, StartTime}

\* the map of process 1 holds, for each meeting, no entry or one of RateTimes
InitRate ==
  /\ recentAttempts \in [Procs -> [Meetings -> {0} \cup RateTimes]]
  /\ \A p \in Procs \ {1}, m \in Meetings : recentAttempts[p][m] = 0
  /\ aiConnectionLocks = {}
  /\ instances = [p \in Procs |-> {}]
  /\ meetingStatus = [m \in Meetings |-> "upcoming"]
  /\ now = StartTime
  /\ req = EmptyBag
  /\ attached = {}
  /\ pendingCleanup = [m \in Meetings |-> 0]
  /\ faults = "any"
  /\ NODE_ENV = "production"
  /\ LocksLoaded

NextRate ==
  \/ \E m \in Meetings : MarkConnectionInProgress(1, m)
  \/ \E q \in DOMAIN req : MarkInsert(q)
  \/ \E q \in DOMAIN req : Return(q)
  \/ Tick

SpecRate == InitRate /\ [][NextRate]_vars

\* --------------- manual-control webhook next to the AISingletonGuard
\* call.session_participant_left is delivered: call.end() is issued
ParticipantLeft(m) ==
  /\ BagCardinality(req) < MaxReq
  /\ req' = req (+) One(NewReq("participant_left", 0, m, "callEnd"))
  /\ UNCHANGED <<aiConnectionLocks, instances, recentAttempts, meetingStatus, now, attached, pendingCleanup, faults, NODE_ENV, EmergencyAIGuard, AbsoluteAILock>>

\* call.end() resolves (the call is over) or throws; the handler is finished
ParticipantLeftEnd(q) ==
  /\ q.kind = "participant_left" /\ q.pc = "callEnd"
  /\ \E ended \in BOOLEAN :
       attached' = IF ended THEN Detached(q.meeting) ELSE attached
  /\ req' = Leave(q)
  /\ UNCHANGED <<aiConnectionLocks, instances, recentAttempts, meetingStatus, now, pendingCleanup, faults, NODE_ENV, EmergencyAIGuard, AbsoluteAILock>>

\* in one behaviour either no store operation throws or deletes may throw
InitEnd == Start /\ faults \in {"none", "delete"}

NextEnd ==
  \/ \E p \in Procs, m \in Called : CheckAndLock(p, m)
  \/ \E q \in DOMAIN req : GuardSelect(q)
  \/ \E q \in DOMAIN req : GuardInsert(q)
  \/ \E q \in DOMAIN req : Return(q)
  \/ \E m \in Called : MarkConnectionCompleted(m)
  \/ \E m \in Called : SessionEnded(m)
  \/ \E q \in DOMAIN req : SessionEndedUpdate(q)
  \/ \E m \in Called : CleanupArrives(m)
  \/ \E m \in Called : ParticipantLeft(m)
  \/ \E q \in DOMAIN req : ParticipantLeftEnd(q)

\* the delete that cleanupConnection issued before the handler went on is
\* completed by the event loop of the process
SpecEnd ==
  /\ InitEnd
  /\ [][NextEnd]_vars
  /\ \A m \in Called : WF_vars(CleanupArrives(m))

\* ------------------------------- release calls on any state of the store
\* the tables the store can hold: at most one row per meeting, in progress
\* or completed
TicketTables ==
  {rows \in SUBSET ({NewRow(m, AgentOf(m), StartTime) : m \in Meetings}
                     \cup {[NewRow(m, AgentOf(m), StartTime) EXCEPT !.isInProgress = FALSE] :
                              m \in Meetings}) :
     \A m \in Meetings : Cardinality(RowsOf(rows, m)) <= 1}

InitRelease ==
  /\ aiConnectionLocks \in TicketTables
  /\ instances \in [Procs -> SUBSET Meetings]
  /\ recentAttempts = [p \in Procs |-> [m \in Meetings |-> 0]]
  /\ meetingStatus = [m \in Meetings |-> "upcoming"]
  /\ now = StartTime
  /\ req = EmptyBag
  /\ attached = {}
  /\ pendingCleanup = [m \in Meetings |-> 0]
  /\ faults = "any"
  /\ NODE_ENV = "production"
  /\ LocksLoaded

NextRelease ==
  \/ \E m \in Meetings : CleanupConnection(m)
  \/ \E p \in Procs, m \in Meetings : Release(p, m)
  \/ \E q \in DOMAIN req : ReleaseDelete(q)

SpecRelease == InitRelease /\ [][NextRelease]_vars

\* ------------------- manual-control webhook: the payload of a notification
Undefined == "undefined"

\* !meetingId
Falsy(v) == v \in {Undefined, ""}

\* a call_cid split at ":" whose last part is taken for the meeting
cidMeetingIdLast(cid) == cid[Len(cid)]

\* event.call_cid.split(":")[1]
cidMeetingId(cid) == IF Len(cid) >= 2 THEN cid[2] ELSE Undefined

EventTypes ==
  {"call.session_started", "call.session_participant_left", "call.session_ended"}

\* call_cid values, split at ":"
Cids == {<<"default", "m1">>, <<"default">>, <<"default", "">>}

\* event.call.custom?.meetingId and event.call_cid of a notification
Payloads == [type : EventTypes, custom : Called \cup {Undefined, ""}, call_cid : Cids]

\* the meetingId the handler extracts from the payload
MeetingIdOf(payload) ==
  IF payload.type = "call.session_participant_left"
  THEN cidMeetingId(payload.call_cid)
  ELSE payload.custom

\* the handler that answered a notification of type t with status 400
Rejected(t) == [NewReq(t, 0, Undefined, "responded") EXCEPT !.err = "400"]

\* call.session_started, manual control: the meeting select is issued
SessionStartedManual(m) ==
  /\ req' = req (+) One(NewReq("session_started_manual", 0, m, "startedSelect"))
  /\ UNCHANGED <<aiConnectionLocks, instances, recentAttempts, meetingStatus, now, attached, pendingCleanup, faults, NODE_ENV, EmergencyAIGuard, AbsoluteAILock>>

\* a session_started handler that still marks the meeting active
StartedSelectManualActivates(q) ==
  /\ q.kind = "session_started_manual" /\ q.pc = "startedSelect"
  /\ req' = Leave(q)
  /\ meetingStatus' = [meetingStatus EXCEPT ![q.meeting] = "active"]
  /\ UNCHANGED <<aiConnectionLocks, instances, recentAttempts, now, attached, pendingCleanup, faults, NODE_ENV, EmergencyAIGuard, AbsoluteAILock>>

\* the select: 404 when no open meeting is found, otherwise the message
\* 'Session started - waiting for manual AI trigger'; nothing is written
StartedSelectManual(q) ==
  /\ q.kind = "session_started_manual" /\ q.pc = "startedSelect"
  /\ req' = Leave(q)
  /\ UNCHANGED <<aiConnectionLocks, instances, recentAttempts, meetingStatus, now, attached, pendingCleanup, faults, NODE_ENV, EmergencyAIGuard, AbsoluteAILock>>

\* POST: a notification of one of the three kinds is delivered; a payload
\* without meetingId is answered with status 400, any other is handled
Post(payload) ==
  /\ BagCardinality(req) < MaxReq
  /\ IF Falsy(MeetingIdOf(payload))
     THEN /\ req' = req (+) One(Rejected(payload.type))
          /\ UNCHANGED <<aiConnectionLocks, instances, recentAttempts, meetingStatus, now, attached, pendingCleanup, faults, NODE_ENV, EmergencyAIGuard, AbsoluteAILock>>
     ELSE CASE payload.type = "call.session_started" ->
                 SessionStartedManual(MeetingIdOf(payload))
            [] payload.type = "call.session_participant_left" ->
                 ParticipantLeft(MeetingIdOf(payload))
            [] payload.type = "call.session_ended" ->
                 SessionEnded(MeetingIdOf(payload))

\* call.session_participant_joined, manual control: the payload is logged and
\* the message 'Participant joined event logged but auto-trigger disabled' is
\* returned
ParticipantJoinedManual ==
  /\ BagCardinality(req) < MaxReq
  /\ req' = req (+) One(NewReq("participant_joined_manual", 0, Undefined, "responded"))
  /\ UNCHANGED <<aiConnectionLocks, instances, recentAttempts, meetingStatus, now, attached, pendingCleanup, faults, NODE_ENV, EmergencyAIGuard, AbsoluteAILock>>

\* the response has been sent
Responded(q) ==
  /\ q.pc = "responded"
  /\ req' = Leave(q)
  /\ UNCHANGED <<aiConnectionLocks, instances, recentAttempts, meetingStatus, now, attached, pendingCleanup, faults, NODE_ENV, EmergencyAIGuard, AbsoluteAILock>>

\* meetings.status before any call.session_ended was handled
Statuses == {"upcoming", "active", "completed", "cancelled"}

\* a meeting with or without a ticket, in any status, its agent in the call
\* or not
InitHook ==
  /\ aiConnectionLocks \in
       {{}} \cup {{[NewRow(m, AgentOf(m), StartTime) EXCEPT !.isInProgress = b]} :
                    m \in Called, b \in BOOLEAN}
  /\ instances = [p \in Procs |-> {}]
  /\ recentAttempts = [p \in Procs |-> [m \in Meetings |-> 0]]
  /\ meetingStatus \in [Meetings -> Statuses]
  /\ \A m \in Meetings \ Called : meetingStatus[m] = "upcoming"
  /\ now = StartTime
  /\ req = EmptyBag
  /\ attached \in {{}} \cup {{<<m, "triggerAI">>} : m \in Called}
  /\ pendingCleanup = [m \in Meetings |-> 0]
  /\ faults \in {"none", "any"}
  /\ NODE_ENV = "production"
  /\ LocksLoaded

NextHook ==
  \/ \E payload \in Payloads : Post(payload)
  \/ ParticipantJoinedManual
  \/ \E q \in DOMAIN req : Responded(q)
  \/ \E q \in DOMAIN req : StartedSelectManual(q)
  \/ \E q \in DOMAIN req : ParticipantLeftEnd(q)
  \/ \E q \in DOMAIN req : SessionEndedUpdate(q)
  \/ \E m \in Called : CleanupArrives(m)

SpecHook == InitHook /\ [][NextHook]_vars

\* ------------------------------ the auto-connect webhook on its own
NextWebhook ==
  \/ \E m \in Called : SessionStarted(m)
  \/ \E q \in DOMAIN req : StartedSelect(q)
  \/ \E q \in DOMAIN req : StartedUpdate(q)
  \/ \E q \in DOMAIN req : StartedAgent(q)
  \/ \E m \in Called : ParticipantJoined(m)
  \/ \E q \in DOMAIN req : JoinedSelect(q)
  \/ \E q \in DOMAIN req : JoinedAgent(q)
  \/ \E q \in DOMAIN req : JoinedUpdate(q)
  \/ \E q \in DOMAIN req : WebhookConnect(q)
  \/ \E q \in DOMAIN req : WebhookUpdateSession(q)
  \/ \E m \in Called : SessionEndedAuto(m)

SpecWebhook == InitOk /\ [][NextWebhook]_vars

\* ------------- call.session_ended, as both versions of the webhook handle it
NextEnded ==
  \/ \E m \in Called : SessionEnded(m)
  \/ \E q \in DOMAIN req : SessionEndedUpdate(q)
  \/ \E m \in Called : CleanupArrives(m)
  \/ \E m \in Called : SessionEndedAuto(m)

SpecEnded == InitHook /\ [][NextEnded]_vars

\* -------------------- EmergencyAIGuard and AbsoluteAILock (in-memory classes)
\* the clock of the lock classes advances in steps of five seconds
TockMs == 5000

Tock ==
  /\ now < StartTime + MaxTocks * TockMs
  /\ now' = now + TockMs
  /\ UNCHANGED <<aiConnectionLocks, instances, recentAttempts, meetingStatus, req, attached, pendingCleanup, faults, NODE_ENV, EmergencyAIGuard, AbsoluteAILock>>

\* EmergencyAIGuard.isConnectionActive
isConnectionActive(g, m) == m \in g.activeConnections

\* an attemptConnection that looks at the time of the last attempt only
attemptConnectionWindowOnly(g, m, t) == ~(t - g.connectionAttempts[m] < minAttemptGap)

\* an attemptConnection whose window ends one millisecond later
attemptConnectionInclusive(g, m, t) ==
  /\ m \notin g.activeConnections
  /\ ~(t - g.connectionAttempts[m] <= minAttemptGap)

\* EmergencyAIGuard.attemptConnection at time t: the value returned
attemptConnection(g, m, t) ==
  /\ m \notin g.activeConnections
  /\ ~(t - g.connectionAttempts[m] < minAttemptGap)

\* EmergencyAIGuard.attemptConnection at time t: the fields it leaves
attemptConnectionFields(g, m, t) ==
  IF attemptConnection(g, m, t)
  THEN [activeConnections |-> g.activeConnections \cup {m},
        connectionAttempts |-> [g.connectionAttempts EXCEPT ![m] = t]]
  ELSE g

\* EmergencyAIGuard.releaseConnection
releaseConnection(g, m) == [g EXCEPT !.activeConnections = @ \ {m}]

\* EmergencyAIGuard.forceCleanup
forceCleanup(g, m) ==
  [activeConnections |-> g.activeConnections \ {m},
   connectionAttempts |-> [g.connectionAttempts EXCEPT ![m] = 0]]

AttemptConnection(m) ==
  /\ EmergencyAIGuard' = attemptConnectionFields(EmergencyAIGuard, m, now)
  /\ UNCHANGED <<aiConnectionLocks, instances, recentAttempts, meetingStatus, now, req, attached, pendingCleanup, faults, NODE_ENV, AbsoluteAILock>>

ReleaseConnection(m) ==
  /\ EmergencyAIGuard' = releaseConnection(EmergencyAIGuard, m)
  /\ UNCHANGED <<aiConnectionLocks, instances, recentAttempts, meetingStatus, now, req, attached, pendingCleanup, faults, NODE_ENV, AbsoluteAILock>>

ForceCleanup(m) ==
  /\ EmergencyAIGuard' = forceCleanup(EmergencyAIGuard, m)
  /\ UNCHANGED <<aiConnectionLocks, instances, recentAttempts, meetingStatus, now, req, attached, pendingCleanup, faults, NODE_ENV, AbsoluteAILock>>

\* AbsoluteAILock.tryLock: the value returned
tryLock(a, m) == m \notin a.globalLock /\ ~(a.requestCounts[m] > 0)

\* a tryLock that counts the requests it turns away at the lock
tryLockFieldsCounting(a, m) ==
  [globalLock |-> IF tryLock(a, m) THEN a.globalLock \cup {m} ELSE a.globalLock,
   requestCounts |-> [a.requestCounts EXCEPT ![m] = @ + 1]]

\* AbsoluteAILock.tryLock: the fields it leaves; a locked meeting returns
\* before the count, otherwise the count is raised whatever is returned
tryLockFields(a, m) ==
  IF m \in a.globalLock THEN a
  ELSE [globalLock |-> IF tryLock(a, m) THEN a.globalLock \cup {m} ELSE a.globalLock,
        requestCounts |-> [a.requestCounts EXCEPT ![m] = @ + 1]]

\* a release that keeps the request count
releaseLockOnly(a, m) == [a EXCEPT !.globalLock = @ \ {m}]

\* AbsoluteAILock.release
release(a, m) ==
  [globalLock |-> a.globalLock \ {m},
   requestCounts |-> [a.requestCounts EXCEPT ![m] = 0]]

\* AbsoluteAILock.forceReset
forceReset(a) == AbsoluteLoaded

TryLock(m) ==
  /\ AbsoluteAILock' = tryLockFields(AbsoluteAILock, m)
  /\ UNCHANGED <<aiConnectionLocks, instances, recentAttempts, meetingStatus, now, req, attached, pendingCleanup, faults, NODE_ENV, EmergencyAIGuard>>

AbsoluteRelease(m) ==
  /\ AbsoluteAILock' = release(AbsoluteAILock, m)
  /\ UNCHANGED <<aiConnectionLocks, instances, recentAttempts, meetingStatus, now, req, attached, pendingCleanup, faults, NODE_ENV, EmergencyAIGuard>>

ForceReset ==
  /\ AbsoluteAILock' = forceReset(AbsoluteAILock)
  /\ UNCHANGED <<aiConnectionLocks, instances, recentAttempts, meetingStatus, now, req, attached, pendingCleanup, faults, NODE_ENV, EmergencyAIGuard>>

NextLocks ==
  \/ \E m \in Meetings : AttemptConnection(m)
  \/ \E m \in Meetings : ReleaseConnection(m)
  \/ \E m \in Meetings : ForceCleanup(m)
  \/ \E m \in Meetings : TryLock(m)
  \/ \E m \in Meetings : AbsoluteRelease(m)
  \/ ForceReset
  \/ Tock

SpecLocks == InitOk /\ [][NextLocks]_vars

\* =============================================================== claims
\* handler q takes a step to q2 in this transition
Took(q, q2) ==
  /\ q \in DOMAIN req /\ q2 \in DOMAIN req'
  /\ q2.pc # q.pc \/ q2.retryCount # q.retryCount
  /\ \E sweep \in BOOLEAN :
       req' = SettleAll(req (-) One(q), aiConnectionLocks', sweep) (+) One(q2)

\* handler q returns in this transition
Left(q) ==
  /\ q \in DOMAIN req
  /\ \E sweep \in BOOLEAN : req' = SettleAll(req (-) One(q), aiConnectionLocks', sweep)

\* handler q is a triggerAI call that holds a grant: checkAndLock returned
\* true and the call has neither failed nor returned
Granted(q) ==
  /\ q.kind = "triggerAI"
  /\ q.acquired
  /\ q.pc \in {"callGet", "dupCleanup", "update", "connect", "markCompleted"}

\* C1: among the triggerAI calls in flight for one meeting, with no release
\* event, at most one holds a grant
C1_OneGrant ==
  \A q1, q2 \in DOMAIN req :
    (Granted(q1) /\ Granted(q2) /\ q1.meeting = q2.meeting)
      => (q1 = q2 /\ CopiesIn(q1, req) = 1)

\* C2: a step of a triggerAI call that has not itself acquired the ticket
\* leaves the aiConnectionLocks rows and the in-memory guard unchanged
C2_DeniedCallNoEffect ==
  [][\A q \in DOMAIN req :
       (/\ q.kind = "triggerAI" /\ ~q.acquired
        /\ Left(q) \/ \E q2 \in DOMAIN req' : Took(q, q2) /\ ~q2.acquired)
         => (aiConnectionLocks' = aiConnectionLocks /\ instances' = instances)]_vars

\* C5: when a row of the meeting exists at the getConnectionState read, the
\* call returns (CONFLICT) at that step and the table is left as it is
C5_ExistingRowRejects ==
  [][\A q \in DOMAIN req :
       (/\ q.kind = "triggerAI" /\ q.pc = "getConnectionState"
        /\ RowsOf(aiConnectionLocks, q.meeting) # {}
        /\ Left(q) \/ \E q2 \in DOMAIN req' : Took(q, q2))
         => (Left(q) /\ aiConnectionLocks' = aiConnectionLocks)]_vars

\* C8 as stated: when a call that acquired the ticket throws its error, no
\* delete it issued having thrown and its last delete having removed what
\* was left, no in-memory entry of the meeting remains on its process
C8_NothingRemains ==
  [][\A q \in DOMAIN req :
       (/\ q.kind = "triggerAI" /\ q.pc = "catchRelease" /\ Left(q)
        /\ q.acquired /\ ~q.delFailed
        /\ RowsOf(aiConnectionLocks', q.meeting) = {})
         => q.meeting \notin instances'[q.proc]]_vars

\* C8 amended: a call that acquired the ticket and fails removes the
\* in-memory entry in its catch block, and when no delete it issued threw
\* the row it inserted is gone before it throws its error
C8_OwnTicketGone ==
  [][\A q \in DOMAIN req :
       (q.kind = "triggerAI" /\ q.acquired) =>
         /\ q.pc = "catchCleanup" =>
              \A q2 \in DOMAIN req' :
                (/\ q2.pc = "catchRelease"
                 /\ \/ q.meeting \in instances'[q.proc]
                    \/ ~q2.delFailed /\ q2.ownRow)
                  => ~Took(q, q2)
         /\ (q.pc = "catchRelease" /\ ~q.delFailed /\ q.ownRow) => ~Left(q)]_vars

\* C8 witness: connectOpenAi failed for a call that acquired the ticket, its
\* deletes were done, and it is about to throw the error with no row and no
\* in-memory entry of the meeting left
C8_Witness ==
  \E q \in DOMAIN req :
    /\ q.kind = "triggerAI" /\ q.pc = "catchRelease"
    /\ q.acquired /\ q.err = "INTERNAL_SERVER_ERROR" /\ ~q.delFailed
    /\ RowsOf(aiConnectionLocks, q.meeting) = {}
    /\ q.meeting \notin instances[q.proc]

\* C6: once the call.session_ended webhook has run for meeting k (its
\* cleanupConnection reached the store and it set the meeting to processing),
\* a triggerAI(k) call that is alone, with no row of k in the store, is not
\* rejected at its entry
C6_ReadmittedAfterRelease ==
  [][\A q \in DOMAIN req :
       (/\ q.kind = "triggerAI" /\ q.pc = "start"
        /\ req = One(q)
        /\ meetingStatus[q.meeting] = "processing"
        /\ RowsOf(aiConnectionLocks, q.meeting) = {}
        /\ pendingCleanup[q.meeting] = 0)
         => ~Left(q)]_vars

\* handler x holds a ticket it never confirmed, aborted or released
Hung(x) ==
  /\ x.kind = "triggerAI" /\ x.acquired
  /\ x.pc \in {"callGet", "update", "connect"}

\* C7: the sweep leaves no row older than 5 minutes, and once it deleted the
\* row of a hung call a triggerAI(k) call is not rejected at its entry
C7_ReadmittedAfterSweep ==
  [][/\ (aiConnectionLocks' # aiConnectionLocks /\ req' = SettleAll(req, aiConnectionLocks', TRUE)
         /\ pendingCleanup' = pendingCleanup)
          => Expired(aiConnectionLocks', now) = {}
     /\ \A q \in DOMAIN req :
          (/\ q.kind = "triggerAI" /\ q.pc = "start"
           /\ RowsOf(aiConnectionLocks, q.meeting) = {}
           /\ pendingCleanup[q.meeting] = 0
           /\ \E x \in DOMAIN req : Hung(x) /\ x.swept /\ x.meeting = q.meeting
           /\ \A x \in DOMAIN (req (-) One(q)) : Hung(x))
            => ~Left(q)]_vars

\* no handler is in flight and no un-awaited delete is under way
Quiescent ==
  /\ req = EmptyBag
  /\ \A m \in Meetings : pendingCleanup[m] = 0

\* C9: in a state with nothing in flight, a triggerAI call for a meeting has
\* the same outcome on every process
C9_SameOutcomeOnEveryProcess ==
  \A m \in Called, p, q \in Procs :
    Quiescent =>
      TriggerOutcome(aiConnectionLocks, instances[p], m)
        = TriggerOutcome(aiConnectionLocks, instances[q], m)

\* the step is a successful connectOpenAi of handler q
ConnectSucceeds(q) ==
  \E q2 \in DOMAIN req' :
    /\ Took(q, q2)
    /\ \/ q.pc = "connect" /\ q2.pc = "markCompleted"
       \/ q.pc = "webhookConnect" /\ q2.pc = "updateSession"

\* C3: between the start and the end of a session, a connectOpenAi of a
\* webhook handler or of triggerAI succeeds only if none succeeded before it
C3_OneConnectPerSession ==
  [][\A q \in DOMAIN req : ConnectSucceeds(q) => ~AgentInCall(q.meeting)]_vars

\* C10: among the deliveries of call.session_started of one session, at most
\* one connects the agent
C10_OneConnectPerSessionStarted ==
  [][\A q \in DOMAIN req :
       (q.kind = "session_started" /\ ConnectSucceeds(q))
         => <<q.meeting, "session_started">> \notin attached]_vars

\* C4: the aiConnectionLocks table never holds two rows of one meeting
C4_OneRowPerMeeting ==
  \A m \in Meetings : Cardinality(RowsOf(aiConnectionLocks, m)) <= 1

\* C4 witness: an insert of one call is pending while the row of its meeting,
\* created by another call after the first one's select, is in the table
C4_Witness ==
  \E q \in DOMAIN req :
    /\ q.pc \in {"guardInsert", "markInsert"}
    /\ RowsOf(aiConnectionLocks, q.meeting) # {}

C12_NoRowAfterParticipantLeft ==
  [][\A q \in DOMAIN req :
       (q.kind = "participant_left" /\ Left(q))
         => RowsOf(aiConnectionLocks', q.meeting) = {}]_vars

\* C13: a completed cleanupConnection(k) or AISingletonGuard.release(k)
\* leaves the rows of the other meetings as they were, changes nothing when k
\* has no row, and leaves a table on which a second call gives what a single
\* call gives; release(k) removes only k from the in-memory map of its
\* process and changes nothing there when k is not in it; no call ends with
\* an error (a throw of the delete is caught)
C13_ReleaseIdempotent ==
  [][/\ \A m \in Meetings :
          (\/ CleanupConnection(m)
           \/ \E q \in DOMAIN req : q.meeting = m /\ ReleaseDelete(q))
            => /\ \A m2 \in Meetings \ {m} :
                    RowsOf(aiConnectionLocks', m2) = RowsOf(aiConnectionLocks, m2)
               /\ RowsOf(aiConnectionLocks, m) = {} => aiConnectionLocks' = aiConnectionLocks
               /\ \A o2 \in {"ok", "error"} :
                    cleanupConnection(aiConnectionLocks', m, o2)
                      \in {aiConnectionLocks', cleanupConnection(aiConnectionLocks, m, "ok")}
               /\ RowsOf(aiConnectionLocks', m) = {}
                    => \A o2 \in {"ok", "error"} :
                         cleanupConnection(aiConnectionLocks', m, o2) = aiConnectionLocks'
               /\ \A q \in DOMAIN req' : q.err = "none"
     /\ \A p \in Procs, m \in Meetings :
          Release(p, m)
            => /\ instances'[p] = instances[p] \ {m}
               /\ \A p2 \in Procs \ {p} : instances'[p2] = instances[p2]
               /\ m \notin instances[p] => instances' = instances
               /\ aiConnectionLocks' = aiConnectionLocks]_vars

\* C13 witness: release(m1) is called a second time, its first delete still
\* pending, where m1 has neither a row nor an in-memory entry and m2 has both
C13_Witness ==
  /\ CopiesIn(NewReq("release", 0, "m1", "releaseDelete"), req) = 2
  /\ RowsOf(aiConnectionLocks, "m1") = {}
  /\ RowsOf(aiConnectionLocks, "m2") # {}
  /\ \A p \in Procs : "m1" \notin instances[p] /\ "m2" \in instances[p]

C15_ThrowDenies ==
  [][/\ \A q \in DOMAIN req, q2 \in DOMAIN req' :
          (/\ q.pc \in {"guardSelect", "guardInsert", "markInsert"}
           /\ q2.kind = q.kind /\ q2.meeting = q.meeting /\ q2.pc # q.pc
           /\ q2.pc # "guardInsert"
           /\ aiConnectionLocks' = aiConnectionLocks
           /\ Took(q, q2))
            => /\ instances' = instances
               /\ ~q2.acquired
               /\ q2.pc = IF q.kind = "triggerAI" THEN "catchCleanup" ELSE "returned"
               /\ q.kind = "triggerAI" => q2.err = "CONFLICT"
     /\ \A q \in DOMAIN req, q2 \in DOMAIN req' :
          (/\ q.kind = "triggerAI" /\ q.pc \in {"catchCleanup", "catchRelease"}
           /\ q2.kind = "triggerAI" /\ q2.pc \notin {"catchCleanup", "catchRelease"}
           /\ q2.err = q.err /\ q2.proc = q.proc)
            => ~Took(q, q2)
     /\ \A q \in DOMAIN req' :
          (q.kind = "triggerAI" /\ q.pc \in {"update", "connect", "markCompleted"})
            => q.acquired /\ q.err = "none"]_vars

\* C15 witness: a triggerAI call, alone, is in its catch block with CONFLICT
\* from checkAndLock although the table has no row, the in-memory map of its
\* process no entry and no agent was attached: a store operation of its
\* checkAndLock threw
C15_Witness ==
  \E q \in DOMAIN req :
    /\ req = One(q)
    /\ q.kind = "triggerAI" /\ q.pc = "catchCleanup" /\ q.err = "CONFLICT"
    /\ aiConnectionLocks = {} /\ attached = {}
    /\ \A p \in Procs : instances[p] = {}

\* C16: a triggerAI call whose getConnectionState read threw is denied; at
\* the least it never has the agent attached by connectOpenAi
C16_ReadFailureDenies ==
  \A q \in DOMAIN req :
    (q.kind = "triggerAI" /\ q.readFailed) => q.pc # "markCompleted"

\* C17: a triggerAI call ends in one of three ways: it returns success from
\* the step after a connectOpenAi of its own succeeded; it throws CONFLICT
\* before its try block, locked in memory or its read having found a row; or
\* its catch block throws the error it holds, which is CONFLICT when
\* checkAndLock denied it.  A call enters the success path only from a
\* connectOpenAi that attached the agent in that step
C17_ThrowsUnlessAttached ==
  [][/\ \A q \in DOMAIN req :
          (/\ q.kind = "triggerAI"
           /\ q.pc \in {"start", "getConnectionState", "markCompleted", "catchRelease"}
           /\ Left(q))
            => \/ /\ q.pc = "markCompleted" /\ q.err = "none" /\ q.acquired
                  /\ <<q.meeting, "triggerAI">> \in attached
               \/ q.pc = "start" /\ isLocked(q.proc, q.meeting)
               \/ q.pc = "getConnectionState" /\ RowsOf(aiConnectionLocks, q.meeting) # {}
               \/ /\ q.pc = "catchRelease"
                  /\ q.err \in {"CONFLICT", "NOT_FOUND", "INTERNAL_SERVER_ERROR"}
                  /\ (~q.acquired /\ q.err # "NOT_FOUND") => q.err = "CONFLICT"
     /\ \A q \in DOMAIN req :
          (q.kind = "triggerAI" /\ q.pc \notin {"start", "getConnectionState", "markCompleted", "catchRelease"})
            => ~Left(q)
     /\ \A q \in DOMAIN req, q2 \in DOMAIN req' :
          (/\ q.kind = "triggerAI" /\ q.pc # "markCompleted"
           /\ q2.kind = "triggerAI" /\ q2.pc = "markCompleted"
           /\ Took(q, q2))
            => /\ q.pc = "connect" /\ q.acquired /\ q.err = "none"
               /\ <<q.meeting, "triggerAI">> \in attached']_vars

\* C17 witness: a call that acquired the ticket is about to throw
\* INTERNAL_SERVER_ERROR from its catch block, connectOpenAi having failed
\* maxRetries times or with another error, and no agent is attached
C17_Witness ==
  \E q \in DOMAIN req :
    /\ q.kind = "triggerAI" /\ q.pc = "catchRelease"
    /\ q.acquired /\ q.err = "INTERNAL_SERVER_ERROR"
    /\ meetingStatus[q.meeting] = "active"
    /\ attached = {}

\* C18: whatever the rate limiters let through, a markConnectionInProgress
\* call is given true only at a step before which the table had no row of
\* its meeting and after which it has exactly one: between two calls given
\* true for one meeting its row was deleted
C18_OneTruePerRow ==
  [][\A q \in DOMAIN req, q2 \in DOMAIN req' :
       (/\ q.kind = "markConnectionInProgress" /\ q.pc = "markInsert"
        /\ q2 = [q EXCEPT !.pc = "returned", !.acquired = TRUE]
        /\ req' = Goto(q, q2))
         => /\ RowsOf(aiConnectionLocks, q.meeting) = {}
            /\ Cardinality(RowsOf(aiConnectionLocks', q.meeting)) = 1]_vars

\* C18 witness: two markConnectionInProgress calls for m1, let through by the
\* rate limiters of two processes, have returned; one was given true, the
\* other false, and the row is in the table
C18_Witness ==
  /\ \A p \in Procs : recentAttempts[p]["m1"] # 0
  /\ RowsOf(aiConnectionLocks, "m1") # {}
  /\ req = One([NewReq("markConnectionInProgress", 0, "m1", "returned") EXCEPT !.acquired = TRUE])
             (+) One(NewReq("markConnectionInProgress", 0, "m1", "returned"))

\* C19: the rate limit check of a markConnectionInProgress(k) call at time
\* now rejects exactly when the map has an entry for k less than 5000 ms
\* old; a rejected call leaves the map as it is; an allowed call records now
\* for k; so a call 5000 ms or more after the recorded one, or with no entry,
\* is allowed
C19_RateLimit ==
  [][\A m \in Meetings :
       MarkConnectionInProgress(1, m)
         => LET last == recentAttempts[1][m]
                rejected == req' = req (+) One(NewReq("markConnectionInProgress", 0, m, "returned"))
                allowed == req' = req (+) One(NewReq("markConnectionInProgress", 0, m, "markInsert"))
            IN /\ rejected <=> (last # 0 /\ now - last < 5000)
               /\ allowed <=> ~rejected
               /\ rejected => recentAttempts' = recentAttempts
               /\ allowed => recentAttempts'[1][m] = now
               /\ (last = 0 \/ now - last >= 5000) => allowed]_vars

\* C19 witness: at one time a call for m2 was rejected, its entry 4999 ms
\* old and left as it was, and a call for m1 was allowed and recorded
C19_Witness ==
  /\ recentAttempts[1]["m2"] = now - 4999
  /\ recentAttempts[1]["m1"] = now
  /\ req = One(NewReq("markConnectionInProgress", 0, "m2", "returned"))
             (+) One(NewReq("markConnectionInProgress", 0, "m1", "markInsert"))

\* C20: a markConnectionInProgress call that the rate limiter of its process
\* rejects is given false at once: the table is left as it is and no insert
\* is issued
C20_RejectedNoStore ==
  [][\A p \in Procs, m \in Called :
       (/\ recentAttempts[p][m] # 0 /\ now - recentAttempts[p][m] < RateWindow
        /\ MarkConnectionInProgress(p, m))
         => /\ aiConnectionLocks' = aiConnectionLocks
            /\ req' = req (+) One(NewReq("markConnectionInProgress", 0, m, "returned"))
            /\ \A q \in DOMAIN req' :
                 q.pc = "markInsert" => q \in DOMAIN req /\ req'[q] = req[q]]_vars

\* C20 witness: on one process a first call for m1 was let through and its
\* insert is still to reach the store, and a second call at the same time
\* was rejected and holds false
C20_Witness ==
  /\ now = StartTime
  /\ Cardinality({p \in Procs : recentAttempts[p]["m1"] # 0}) = 1
  /\ aiConnectionLocks = {}
  /\ req = One(NewReq("markConnectionInProgress", 0, "m1", "markInsert"))
             (+) One(NewReq("markConnectionInProgress", 0, "m1", "returned"))

\* C21: in either deployment mode a ticket row that is old enough to be
\* swept before the clock of the model stops is eventually deleted, no user
\* request being needed
C21_TicketEventuallySwept ==
  \A m \in Called :
    (\E row \in RowsOf(aiConnectionLocks, m) :
        row.createdAt < StartTime + (MaxTicks - 1) * TickMs + 1)
      ~> (RowsOf(aiConnectionLocks, m) = {})

\* C22: cleanupOldConnections at time now deletes the rows created before
\* now - 5 minutes, in progress or completed, and no other row; it deletes
\* all of them when the delete does not throw and none when it throws
C22_SweepDeletesOld ==
  [][cleanupOldConnections
       => LET old == {row \in aiConnectionLocks : row.createdAt < now - FiveMinutes}
          IN /\ aiConnectionLocks' \in {aiConnectionLocks \ old, aiConnectionLocks}
             /\ faults = "none" => aiConnectionLocks' = aiConnectionLocks \ old
             /\ \A row \in aiConnectionLocks :
                  row.createdAt >= now - FiveMinutes => row \in aiConnectionLocks']_vars

\* C22 witness: at StartTime the row of m1 is gone, every meeting having had
\* one, and the completed row of m2, exactly five minutes old, is there
C22_Witness ==
  /\ now = StartTime
  /\ RowsOf(aiConnectionLocks, "m1") = {}
  /\ \E row \in RowsOf(aiConnectionLocks, "m2") :
       ~row.isInProgress /\ row.createdAt = StartTime - FiveMinutes

\* C23: a step of a writer of the table changes it in one of three ways: it
\* adds one row, in progress and created now, and changes nothing else; it
\* replaces in-progress rows by the same rows with isInProgress false; or it
\* only removes rows.  No row goes from completed to in progress, and no
\* row changes its meetingId, agentId or createdAt
C23_TicketStateMachine ==
  [][\A new \in aiConnectionLocks' \ aiConnectionLocks :
       \/ /\ new.isInProgress /\ new.createdAt = now
          /\ new.agentId = AgentOf(new.meetingId)
          /\ aiConnectionLocks' = aiConnectionLocks \cup {new}
       \/ /\ ~new.isInProgress
          /\ [new EXCEPT !.isInProgress = TRUE] \in aiConnectionLocks \ aiConnectionLocks'
          /\ Cardinality(aiConnectionLocks') = Cardinality(aiConnectionLocks)]_vars

\* C23 witness: the ticket of m1 is completed, time has passed since, and a
\* markConnectionInProgress call for m1 was given false next to it
C23_Witness ==
  /\ now > StartTime
  /\ \E row \in RowsOf(aiConnectionLocks, "m1") : ~row.isInProgress /\ row.createdAt = StartTime
  /\ NewReq("markConnectionInProgress", 0, "m1", "returned") \in DOMAIN req

KeyChanged(m) ==
  \/ RowsOf(aiConnectionLocks', m) # RowsOf(aiConnectionLocks, m)
  \/ \E p \in Procs : (m \in instances'[p]) # (m \in instances[p])

\* this step is a step of a request for meeting k
ActsOn(k) ==
  \E q \in DOMAIN req \cup DOMAIN req' :
    q.meeting = k /\ CopiesIn(q, req') # CopiesIn(q, req)

\* handler q takes a step in this transition and is at pc afterwards
TookTo(q, pc) == \E q2 \in DOMAIN req' : q2.pc = pc /\ Took(q, q2)

\* C25: admissions for distinct meetings do not interfere: a step of
\* checkRateLimit, markConnectionInProgress, checkAndLock or triggerAI for
\* meeting k leaves the rows and guard entries of every other meeting
\* unchanged, and what it answers is fixed by the rate-limit entry, the guard
\* entry and the row of k alone, whatever exists for the other meetings
C25_KeysDoNotInterfere ==
  [][\A k \in Meetings :
       ActsOn(k) =>
         LET held == RowsOf(aiConnectionLocks, k) # {}
             row == NewRow(k, AgentOf(k), now)
             limited == recentAttempts[1][k] # 0 /\ now - recentAttempts[1][k] < RateWindow
         IN /\ \A m \in Meetings \ {k} : ~KeyChanged(m) /\ ~ActsOn(m)
            /\ req' = req (+) One(NewReq("markConnectionInProgress", 0, k, "returned"))
                 => limited
            /\ req' = req (+) One(NewReq("markConnectionInProgress", 0, k, "markInsert"))
                 => ~limited
            /\ \A q \in DOMAIN req :
                 q.meeting = k =>
                   /\ q.pc = "start" =>
                        /\ Left(q) => k \in instances[q.proc]
                        /\ TookTo(q, "getConnectionState") => k \notin instances[q.proc]
                   /\ q.pc = "getConnectionState" =>
                        /\ Left(q) => held
                        /\ TookTo(q, "lookup") => ~held
                   /\ q.pc = "lookup" =>
                        /\ TookTo(q, "catchCleanup") => k \in instances[q.proc]
                        /\ TookTo(q, "guardSelect") => k \notin instances[q.proc]
                   /\ q.pc = "guardSelect" =>
                        /\ TookTo(q, "guardInsert") => ~held
                        /\ TookTo(q, "catchCleanup") => held
                   /\ q.pc = "guardInsert" =>
                        /\ TookTo(q, "callGet") =>
                             ~held /\ aiConnectionLocks' = aiConnectionLocks \cup {row}
                        /\ TookTo(q, "catchCleanup") => held
                   /\ q.pc = "markInsert" =>
                        \A q2 \in DOMAIN req' :
                          Took(q, q2) =>
                            /\ q2.acquired = ~held
                            /\ q2.acquired => aiConnectionLocks' = aiConnectionLocks \cup {row}]_vars

C25_Witness ==
  /\ RowsOf(aiConnectionLocks, "m2") # {}
  /\ "m2" \in instances[1]
  /\ recentAttempts[1]["m2"] # 0
  /\ \E q \in DOMAIN req : q.meeting = "m2"
  /\ \E q \in DOMAIN req : q.meeting = "m1" /\ Granted(q) /\ q.pc = "callGet"
  /\ RowsOf(aiConnectionLocks, "m1") # {}


\* the payload carries no meetingId where the handler of its type looks for it
NoMeetingId(payload) ==
  IF payload.type = "call.session_participant_left"
  THEN Len(payload.call_cid) < 2 \/ payload.call_cid[2] = ""
  ELSE payload.custom \in {Undefined, ""}

\* C26: a session_started, session_participant_left or session_ended
\* notification whose payload yields no meetingId is answered with status 400
\* and nothing is done to the lock store, the meeting status or the call,
\* neither by the handler nor after its response
C26_NoMeetingIdRejected ==
  [][/\ \A payload \in Payloads :
          (Post(payload) /\ NoMeetingId(payload)) =>
            /\ req' = req (+) One(Rejected(payload.type))
            /\ UNCHANGED <<aiConnectionLocks, instances, meetingStatus, attached, pendingCleanup>>
     /\ \A q \in DOMAIN req :
          (q.pc = "responded" /\ Left(q)) =>
            UNCHANGED <<aiConnectionLocks, instances, meetingStatus, attached, pendingCleanup>>]_vars

C26_Witness ==
  /\ \E t \in EventTypes : Rejected(t) \in DOMAIN req
  /\ RowsOf(aiConnectionLocks, "m1") # {}
  /\ meetingStatus["m1"] = "active"
  /\ AgentInCall("m1")
  /\ pendingCleanup["m1"] = 0

\* C27: a triggerAI call that checkAndLock denies because a store operation
\* threw (no row of the meeting is in the table) ends with an error other
\* than the CONFLICT reported when another caller holds the ticket
C27_StoreFailureDistinct ==
  [][\A q \in DOMAIN req :
       (q.kind = "triggerAI" /\ q.pc \in {"guardSelect", "guardInsert"}
          /\ RowsOf(aiConnectionLocks, q.meeting) = {}) =>
         \A q2 \in DOMAIN req' :
           (Took(q, q2) /\ q2.pc = "catchCleanup") => q2.err # "CONFLICT"]_vars

\* C28: a triggerAI call that has acquired the ticket and finds the agent of
\* the meeting among the call participants ends with the CONFLICT error: after
\* its cleanupConnection it is in its catch block with that error, on no path
\* to connectOpenAi
C28_AgentInCallConflict ==
  [][\A q \in DOMAIN req :
       (q.kind = "triggerAI" /\ q.pc = "dupCleanup") =>
         \A q2 \in DOMAIN req' :
           Took(q, q2) => (q2.pc = "catchCleanup" /\ q2.err = "CONFLICT")]_vars

\* C29: when a triggerAI call returns success for meeting k and no other
\* request and no release event for k is in flight, the table holds a row of
\* k with isInProgress = false at the moment of return
C29_SuccessLeavesCompletedRow ==
  [][\A q \in DOMAIN req :
       (q.kind = "triggerAI" /\ q.pc = "markCompleted" /\ Left(q)
          /\ req = One(q) /\ pendingCleanup[q.meeting] = 0) =>
         \E row \in RowsOf(aiConnectionLocks', q.meeting) : ~row.isInProgress]_vars

\* C30: within one triggerAI call connectOpenAi is invoked at most 3 times;
\* an attempt is followed by another only when it failed with the 'mask is
\* not a function' error and fewer than 3 attempts have failed; any other
\* error ends the call after that attempt; every attempt either connects,
\* leaves the loop with an error for the caller, or raises the count of
\* failed attempts, which never exceeds 3, so the loop terminates
C30_RetryLoop ==
  [][\A q \in DOMAIN req : \A c \in ConnectOutcomes :
       ConnectAttempt(q, c) =>
         /\ q.retryCount + 1 <= 3
         /\ TookTo(q, "connect") => (c = "mask" /\ q.retryCount + 1 < 3)
         /\ c = "other" =>
              \E q2 \in DOMAIN req' :
                Took(q, q2) /\ q2.pc = "failCleanup" /\ q2.err # "none"
         /\ c = "connected" => TookTo(q, "markCompleted") /\ AgentInCall(q.meeting)'
         /\ \E q2 \in DOMAIN req' :
              /\ Took(q, q2)
              /\ \/ q2.pc = "markCompleted"
                 \/ q2.pc = "failCleanup" /\ q2.err # "none"
                 \/ q2.pc = "connect" /\ q2.retryCount = q.retryCount + 1]_vars

C30_Witness ==
  /\ \E q \in DOMAIN req : q.pc = "connect" /\ q.retryCount = 2
  /\ \E q \in DOMAIN req : q.pc = "failCleanup"

\* C31: a call.session_started notification that is delivered again after a
\* handler marked the meeting active and its attach failed (the meeting is
\* active, the agent is not in the call, nothing else is in flight) is not
\* turned away at the meeting select: it goes on to attempt the attach
C31_RedeliveryAttachesAgain ==
  [][\A q \in DOMAIN req :
       (q.kind = "session_started" /\ q.pc = "startedSelect" /\ req = One(q)
          /\ meetingStatus[q.meeting] = "active" /\ ~AgentInCall(q.meeting)) =>
         ~Left(q)]_vars

\* C32: a call.session_participant_joined handler whose participant is the
\* agent of the meeting, or which read the meeting status 'active', returns
\* without invoking connectOpenAi and without changing the meeting status;
\* only a handler that decided otherwise reaches the update and the attach
C32_OwnJoinNoAttach ==
  [][/\ \A q \in DOMAIN req : \A found, isAgent \in BOOLEAN :
          (JoinedDecide(q, found, isAgent) /\ (isAgent \/ q.pc = "joinedAgentActive")) =>
            /\ Left(q)
            /\ UNCHANGED <<meetingStatus, attached, aiConnectionLocks>>
     /\ \A q \in DOMAIN req : \A q2 \in DOMAIN req' :
          (q.kind = "participant_joined" /\ Took(q, q2)
             /\ q2.pc \in {"joinedUpdate", "webhookConnect", "updateSession"}) =>
            q.pc \in {"joinedAgent", "joinedUpdate", "webhookConnect"}
     /\ \A q \in DOMAIN req : \A q2 \in DOMAIN req' :
          (q.kind = "participant_joined" /\ q.pc = "joinedSelect" /\ Took(q, q2)) =>
            (q2.pc = "joinedAgentActive") = (meetingStatus[q.meeting] = "active")]_vars

C32_Witness ==
  \E q \in DOMAIN req :
    /\ q.kind = "participant_joined" /\ q.pc = "joinedAgentActive"
    /\ AgentInCall(q.meeting)
    /\ meetingStatus[q.meeting] = "active"
    /\ req = One(q)

\* the kinds of handler of the manual-control webhook for call.session_started
\* and call.session_participant_joined
DisabledKinds ==
  {"session_started_manual", "participant_joined_manual", "call.session_started"}

EndedStatus(status, k) ==
  [status EXCEPT ![k] = IF @ = "active" THEN "processing" ELSE @]

\* C34: the update of call.session_ended for meeting k sets the status to
\* 'processing' if and only if it was 'active' and leaves every other status
\* unchanged (an update that throws changes nothing); the same update applied
\* again, as by a duplicate delivery, changes nothing further
C34_EndedOnlyFromActive ==
  [][/\ \A q \in DOMAIN req :
          SessionEndedUpdate(q) =>
            /\ meetingStatus' \in {EndedStatus(meetingStatus, q.meeting), meetingStatus}
            /\ faults = "none" => meetingStatus' = EndedStatus(meetingStatus, q.meeting)
            /\ EndedStatus(meetingStatus', q.meeting) \in {meetingStatus', EndedStatus(meetingStatus, q.meeting)}
     /\ \A m \in Called :
          SessionEndedAuto(m) =>
            /\ meetingStatus' \in {EndedStatus(meetingStatus, m), meetingStatus}
            /\ faults = "none" => meetingStatus' = EndedStatus(meetingStatus, m)
     /\ \A m \in Called : SessionEnded(m) => UNCHANGED meetingStatus
     /\ \A m \in Meetings :
          meetingStatus'[m] # meetingStatus[m] =>
            (meetingStatus[m] = "active" /\ meetingStatus'[m] = "processing")]_vars

C34_Witness ==
  /\ meetingStatus["m1"] = "processing"
  /\ faults = "none"
  /\ \E q \in DOMAIN req : q.kind = "session_ended" /\ q.pc = "endedUpdate"
  /\ RowsOf(aiConnectionLocks, "m1") = {}

\* times of a later checkRateLimit call, seen from now
LaterTimes == {now, now + 4999, now + 5000, now + 30001}

\* C35: right after a checkRateLimit(m) that returned true at time now the
\* map holds no entry older than 30000 ms; the purge removed only entries
\* older than 30000 ms, none younger than 5000 ms, and a later checkRateLimit
\* for any key answers as it would have without the purge
C35_PurgeKeepsResults ==
  [][\A m \in Meetings :
       (MarkConnectionInProgress(1, m)
          /\ req' = req (+) One(NewReq("markConnectionInProgress", 0, m, "markInsert"))) =>
         LET before == [recentAttempts[1] EXCEPT ![m] = now]
             after == recentAttempts'[1]
         IN /\ \A k \in Meetings : after[k] # 0 => now - after[k] <= 30000
            /\ \A k \in Meetings :
                 after[k] # before[k] => (after[k] = 0 /\ now - before[k] > 30000)
            /\ \A k \in Meetings :
                 (before[k] # 0 /\ now - before[k] < 5000) => after[k] = before[k]
            /\ \A k \in Meetings : \A t \in LaterTimes :
                 checkRateLimit(after, k, t) = checkRateLimit(before, k, t)]_vars

C35_Witness ==
  /\ recentAttempts[1]["m1"] = now
  /\ recentAttempts[1]["m2"] = 0
  /\ now > StartTime
  /\ NewReq("markConnectionInProgress", 0, "m1", "markInsert") \in DOMAIN req

\* C36: EmergencyAIGuard is mutually exclusive per meeting: an
\* attemptConnection(k) that returns true makes k active; k stays active
\* through every operation other than releaseConnection(k) and
\* forceCleanup(k), on k and on other meetings; and while k is active
\* attemptConnection(k) returns false and isConnectionActive(k) is true
C36_EmergencyExclusive ==
  [][\A k \in Meetings :
       /\ (AttemptConnection(k) /\ attemptConnection(EmergencyAIGuard, k, now)) =>
            k \in EmergencyAIGuard'.activeConnections
       /\ (k \in EmergencyAIGuard.activeConnections
             /\ ~ReleaseConnection(k) /\ ~ForceCleanup(k)) =>
            k \in EmergencyAIGuard'.activeConnections
       /\ k \in EmergencyAIGuard.activeConnections =>
            /\ isConnectionActive(EmergencyAIGuard, k)
            /\ \A i \in 0..MaxTocks : ~attemptConnection(EmergencyAIGuard, k, now + i * TockMs)
            /\ AttemptConnection(k) => UNCHANGED EmergencyAIGuard]_vars

C36_Witness ==
  /\ "m1" \in EmergencyAIGuard.activeConnections
  /\ now - EmergencyAIGuard.connectionAttempts["m1"] >= minAttemptGap
  /\ "m2" \notin EmergencyAIGuard.activeConnections
  /\ EmergencyAIGuard.connectionAttempts["m2"] > EmergencyAIGuard.connectionAttempts["m1"]

\* C37: connectionAttempts[k] is the time of the last attemptConnection(k)
\* that returned true (attempts that return false, releaseConnection and
\* operations on other meetings leave it alone); for a meeting that is not
\* active attemptConnection(k) returns true if and only if no such time is
\* recorded or at least 10000 ms have passed since; after forceCleanup(k)
\* attemptConnection(k) returns true at any time
C37_EmergencyWindow ==
  [][\A k \in Meetings :
       LET last == EmergencyAIGuard.connectionAttempts[k]
           granted == attemptConnection(EmergencyAIGuard, k, now)
       IN /\ (AttemptConnection(k) /\ granted) =>
               EmergencyAIGuard'.connectionAttempts[k] = now
          /\ ~(AttemptConnection(k) /\ granted) /\ ~ForceCleanup(k) =>
               EmergencyAIGuard'.connectionAttempts[k] = last
          /\ k \notin EmergencyAIGuard.activeConnections =>
               (granted <=> (last = 0 \/ now - last >= 10000))
          /\ ReleaseConnection(k) =>
               \A i \in 0..MaxTocks :
                 attemptConnection(EmergencyAIGuard', k, now + i * TockMs)
                   <=> (last = 0 \/ now + i * TockMs - last >= 10000)
          /\ ForceCleanup(k) =>
               \A i \in 0..MaxTocks :
                 attemptConnection(EmergencyAIGuard', k, now + i * TockMs)]_vars

C37_Witness ==
  /\ now = StartTime + 2 * TockMs
  /\ "m1" \in EmergencyAIGuard.activeConnections
  /\ EmergencyAIGuard.connectionAttempts["m1"] = now
  /\ "m2" \notin EmergencyAIGuard.activeConnections
  /\ EmergencyAIGuard.connectionAttempts["m2"] = StartTime + TockMs

\* C38: in every state reached through tryLock, release and forceReset a
\* meeting is in globalLock if and only if its request count is 1, no count
\* exceeds 1, and so an unlocked meeting has no count and its tryLock is not
\* turned away by the request-count check
C38_LockIffCountOne ==
  \A k \in Meetings :
    /\ (k \in AbsoluteAILock.globalLock) <=> (AbsoluteAILock.requestCounts[k] = 1)
    /\ AbsoluteAILock.requestCounts[k] <= 1
    /\ k \notin AbsoluteAILock.globalLock => tryLock(AbsoluteAILock, k)

C38_Witness ==
  /\ AbsoluteAILock.globalLock = {"m1"}
  /\ AbsoluteAILock.requestCounts["m1"] = 1
  /\ AbsoluteAILock.requestCounts["m2"] = 0

\* C39: tryLock(k) returns true if and only if k is not locked at the call,
\* and then locks k; right after release(k) and after forceReset() a
\* tryLock(k) returns true; release(k) leaves the lock and the count of every
\* other meeting as they were; forceReset() unlocks every meeting
C39_AbsoluteLock ==
  [][/\ \A k \in Meetings :
          /\ TryLock(k) =>
               /\ tryLock(AbsoluteAILock, k) <=> (k \notin AbsoluteAILock.globalLock)
               /\ k \in AbsoluteAILock'.globalLock
               /\ AbsoluteAILock'.globalLock \ {k} = AbsoluteAILock.globalLock \ {k}
          /\ AbsoluteRelease(k) =>
               /\ tryLock(AbsoluteAILock', k)
               /\ k \notin AbsoluteAILock'.globalLock
               /\ \A m \in Meetings \ {k} :
                    /\ (m \in AbsoluteAILock'.globalLock) <=> (m \in AbsoluteAILock.globalLock)
                    /\ AbsoluteAILock'.requestCounts[m] = AbsoluteAILock.requestCounts[m]
     /\ ForceReset =>
          /\ AbsoluteAILock'.globalLock = {}
          /\ \A k \in Meetings : tryLock(AbsoluteAILock', k)]_vars

C39_Witness ==
  /\ AbsoluteAILock.globalLock = {"m2"}
  /\ tryLock(AbsoluteAILock, "m1")
  /\ ~tryLock(AbsoluteAILock, "m2")

TypeOK ==
  /\ \A row \in aiConnectionLocks : row.meetingId \in Meetings
  /\ instances \in [Procs -> SUBSET Meetings]
  /\ BagCardinality(req) <= MaxReq
  /\ \A q \in DOMAIN req : q.retryCount \in 0..maxRetries
====
